---------------------------- MODULE Spec2Model ----------------------------
(***************************************************************************)
(* A model of the calorie-tracking bot (Art2design/calories_bot):          *)
(*   - bot/db_storage.py : DBUserData (profile, diary, stats, bars)        *)
(*   - bot/handlers.py   : the aiogram handlers and their FSM states       *)
(*   - bot/models.py     : the users / food_entries tables                 *)
(*                                                                         *)
(* Conventions.                                                            *)
(*   Quantities (kcal, grams, milligrams) are fixed-point integers in      *)
(*   hundredths: 2310 kcal is 231000.  Python floats are idealised as      *)
(*   exact decimals; round() is round-half-even, int() truncates.          *)
(*   Percentages are kept in tenths of a percent: 100.0 % is 1000.         *)
(*   Time is counted in ticks since the epoch; a calendar date is a day    *)
(*   number.  Python's None is the empty tuple, a present value v is <<v>>.*)
(***************************************************************************)
EXTENDS Integers, Sequences, FiniteSets, TLC

VARIABLES
    now,        \* the wall clock: the current instant, in ticks (UTC)
    backend,    \* how the DATABASE_URL engine handles an aware datetime
    users_tbl,  \* table "users":        user id -> row   (models.User)
    food_tbl,   \* table "food_entries": set of rows      (models.FoodEntry)
    next_id,    \* the serial primary key of food_entries
    cache,      \* db_user_data_cache:   user id -> DBUserData object
    fsm_state,  \* MemoryStorage: the FSM state of each user
    fsm_data,   \* MemoryStorage: the FSM data dict of each user
    view,       \* the message (text and buttons) last shown to each user
    next_photo, \* history: number of the next photo the bot receives
    created,    \* history: photo number -> rows inserted from its analysis
    args,       \* the arguments a pure function is applied to
    running,    \* the handler invocations suspended at an await
    last        \* the last operation: its inputs and what it returned

vars == <<now, backend, users_tbl, food_tbl, next_id, cache, fsm_state,
          fsm_data, view, next_photo, created, args, running,
          last>>

---------------------------------------------------------------------------
(* Bounds of the model.                                                    *)

\* ticks per second: the clock resolves instants below one second
TicksPerSecond == 2
\* rows the diary operations insert before the model stops adding
MaxEntries == 2
\* photos the bot receives before the model stops sending them
MaxPhotos == 2
\* widest progress bar rendered
MaxWidth == 12
\* largest percentage (in tenths of a percent) a bar is rendered for
MaxBarPercentage == 1300

Users == {1, 2}

None == <<>>
Some(v) == <<v>>
Val(o) == o[1]

Min(a, b) == IF a <= b THEN a ELSE b

\* a // b rounded to the nearest integer, ties to even (Python 3 round())
RoundDiv(a, b) ==
    LET q == a \div b
        r == a % b
    IN  IF 2 * r < b THEN q
        ELSE IF 2 * r > b THEN q + 1
        ELSE IF q % 2 = 0 THEN q ELSE q + 1

\* round(x, 1) of a quantity in hundredths: the result is a multiple of 10
Round1(x) == 10 * RoundDiv(x, 10)

\* dict.get(key, default)
Get(d, k, default) == IF k \in DOMAIN d THEN d[k] ELSE default

---------------------------------------------------------------------------
(* Time.                                                                   *)

Second == TicksPerSecond
Hour == 3600 * Second
Day == 24 * Hour

HMS(d, h, m, s) == d * Day + h * Hour + m * 60 * Second + s * Second

\* datetime.date() of an instant or of a naive wall-clock reading
DateOf(t) == t \div Day

\* The instants the clock is sampled at: day 1 and the start of day 2 (UTC).
\* 13:58 UTC is 23:58 in Vladivostok (UTC+10); 20:59:59.x UTC is 23:59:59.x
\* in Moscow; 23:59:59 UTC is the last whole second of the UTC day.
Instants ==
    { HMS(1, 4, 0, 0),
      HMS(1, 13, 58, 0),
      HMS(1, 20, 59, 59) + 1,
      HMS(1, 23, 59, 59),
      HMS(2, 4, 0, 0) }

\* calendar dates the diary is queried for
Dates == 0 .. 3

---------------------------------------------------------------------------
(* bot/db_storage.py: the timezone registry.  Each zone is modelled by its *)
(* standard UTC offset in hours (the comment on its line in the source).   *)

TimezoneOffsetHours ==
    [ MSK |-> 3, UTC |-> 0, CET |-> 1, EET |-> 2, GMT |-> 0, EKAT |-> 5,
      NOVS |-> 7, IRKT |-> 8, VLAD |-> 10, MAGA |-> 11, PET |-> 12,
      SAMT |-> 4, KRAT |-> 7, YEKT |-> 5, OMST |-> 6, BAKU |-> 4,
      TBIL |-> 4, YREV |-> 4, MINS |-> 3, KYIV |-> 2 ]

AVAILABLE_TIMEZONES == DOMAIN TimezoneOffsetHours

DefaultTimezoneCode == "MSK"

\* pytz.timezone(name).utcoffset, in ticks
UtcOffset(code) == TimezoneOffsetHours[code] * Hour


---------------------------------------------------------------------------
(* bot/models.py and DBUserData.__init__ / load_from_db / get_user_data.   *)

\* The part of the state DBUserData works on, passed through its methods.
World ==
    [ users |-> users_tbl, cache |-> cache, food |-> food_tbl,
      next_id |-> next_id, now |-> now ]

\* a method's result: the world it leaves and the value it returns
Result(w, r) == [w |-> w, ret |-> r]

\* a method left by an exception: the world it leaves and the exception
Raised(w, exception) == [w |-> w, ret |-> FALSE, raises |-> exception]

Raises(r) == "raises" \in DOMAIN r

\* float("nan"): the float that every comparison answers False for and that
\* every arithmetic operation hands on
NaN == -1000000000

IsNaN(x) == x = NaN

\* models.User as created by load_from_db for an unknown user
NewUserRow ==
    [ timezone_code |-> DefaultTimezoneCode, calorie_limit |-> None,
      protein_limit |-> None, fat_limit |-> None, carbs_limit |-> None,
      fiber_limit |-> None, user_weight |-> None,
      body_fat_percentage |-> None ]

\* DBUserData.__init__ before load_from_db; sugar_limit, sodium_limit and
\* cholesterol_limit are attributes the object gets only in set_macros_limits
\* (an absent attribute reads as None through hasattr/getattr).
DefaultProfile ==
    [ timezone_code |-> DefaultTimezoneCode, calorie_limit |-> None,
      protein_limit |-> None, fat_limit |-> None, carbs_limit |-> None,
      fiber_limit |-> None, user_weight |-> None,
      body_fat_percentage |-> None, sugar_limit |-> None,
      sodium_limit |-> None, cholesterol_limit |-> None ]

\* the columns load_from_db copies from the row onto the object
ProfileFromRow(row) ==
    [ DefaultProfile EXCEPT
        !.timezone_code = row.timezone_code,
        !.calorie_limit = row.calorie_limit,
        !.protein_limit = row.protein_limit,
        !.fat_limit = row.fat_limit,
        !.carbs_limit = row.carbs_limit,
        !.fiber_limit = row.fiber_limit,
        !.user_weight = row.user_weight,
        !.body_fat_percentage = row.body_fat_percentage ]

load_from_db(w, u) ==
    IF u \in DOMAIN w.users
    THEN [w EXCEPT !.cache = (u :> ProfileFromRow(w.users[u])) @@ w.cache]
    ELSE [w EXCEPT !.users = (u :> NewUserRow) @@ w.users,
                   !.cache = (u :> DefaultProfile) @@ w.cache]

get_user_data(w, u) ==
    IF u \in DOMAIN w.cache THEN w ELSE load_from_db(w, u)

---------------------------------------------------------------------------
(* DBUserData: timezone.                                                   *)

set_timezone_unchecked(w, u, timezone_code, fault) ==
    LET w1 == [w EXCEPT !.cache[u].timezone_code = timezone_code]
    IN  IF fault THEN Result(w1, FALSE)
        ELSE IF u \in DOMAIN w1.users
        THEN Result([w1 EXCEPT !.users[u].timezone_code = timezone_code],
                    TRUE)
        ELSE Result(w1, FALSE)

\* set_timezone; fault: the session raises SQLAlchemyError
set_timezone(w, u, timezone_code, fault) ==
    IF timezone_code \notin AVAILABLE_TIMEZONES THEN Result(w, FALSE)
    ELSE LET w1 == [w EXCEPT !.cache[u].timezone_code = timezone_code]
         IN  IF fault THEN Result(w1, FALSE)
             ELSE IF u \in DOMAIN w1.users
             THEN Result([w1 EXCEPT !.users[u].timezone_code = timezone_code],
                         TRUE)
             ELSE Result(w1, FALSE)

resolve_timezone_on_object_only(w, u, fault) ==
    IF w.cache[u].timezone_code \in AVAILABLE_TIMEZONES
    THEN Result(w, UtcOffset(w.cache[u].timezone_code))
    ELSE Result([w EXCEPT !.cache[u].timezone_code = DefaultTimezoneCode],
                UtcOffset(DefaultTimezoneCode))

\* the body shared by the timezone property and get_timezone_name: the zone
\* of the object's code (its UTC offset); an unknown code is replaced by the
\* default on the object and, through set_timezone, in the store.  fault:
\* the session of that set_timezone raises SQLAlchemyError.
resolve_timezone(w, u, fault) ==
    IF w.cache[u].timezone_code \in AVAILABLE_TIMEZONES
    THEN Result(w, UtcOffset(w.cache[u].timezone_code))
    ELSE Result(set_timezone(
                    [w EXCEPT !.cache[u].timezone_code = DefaultTimezoneCode],
                    u, DefaultTimezoneCode, fault).w,
                UtcOffset(DefaultTimezoneCode))

\* the timezone property on a store that takes the write
timezone(w, u) == resolve_timezone(w, u, FALSE)

\* get_timezone_name
get_timezone_name(w, u, fault) == resolve_timezone(w, u, fault)

\* get_current_datetime: the aware datetime now, as (instant, offset)
get_current_datetime(w, u) ==
    LET tz == timezone(w, u)
    IN  Result(tz.w, [instant |-> tz.w.now, offset |-> tz.ret])

\* the wall-clock reading of an aware datetime
WallClock(dt) == dt.instant + dt.offset

get_current_date(w, u) ==
    LET dt == get_current_datetime(w, u)
    IN  Result(dt.w, DateOf(WallClock(dt.ret)))

---------------------------------------------------------------------------
(* The DateTime column of food_entries has no timezone.  What a bound aware *)
(* datetime becomes depends on the engine behind DATABASE_URL:              *)
(*   "instant"   (PostgreSQL): the value is converted to the session zone,  *)
(*               so stored values and query bounds compare as instants;     *)
(*   "wallclock" (SQLite): the tzinfo is dropped and the wall-clock reading *)
(*               of the value is stored and compared.                       *)
(* Either way the value is a naive reading counted in ticks.                *)

Backends == {"instant", "wallclock"}

BindDateTime(dt) ==
    IF backend = "instant" THEN dt.instant ELSE WallClock(dt)

\* datetime(D, 0:00, tzinfo=UTC).astimezone(tz): midnight UTC of date D, seen
\* from the zone with the given offset
TargetStart(D, offset) == [instant |-> D * Day, offset |-> offset]

\* target_start + timedelta(days=1, seconds=-1)
TargetEnd(D, offset) == [instant |-> D * Day + Day - Second, offset |-> offset]

\* .astimezone(pytz.UTC)
AsUtc(dt) == [instant |-> dt.instant, offset |-> 0]

InTargetWindow_any_owner(row, u, D, offset) ==
    /\ row.timestamp >= BindDateTime(AsUtc(TargetStart(D, offset)))
    /\ row.timestamp <= BindDateTime(AsUtc(TargetEnd(D, offset)))

\* the filter of get_stats_by_date and get_entries_by_date on one row
InTargetWindow(row, u, D, offset) ==
    /\ row.user_id = u
    /\ row.timestamp >= BindDateTime(AsUtc(TargetStart(D, offset)))
    /\ row.timestamp <= BindDateTime(AsUtc(TargetEnd(D, offset)))

---------------------------------------------------------------------------
(* DBUserData: the diary.                                                  *)

NutrientFields ==
    {"calories", "protein", "fat", "carbs", "fiber", "sugar", "sodium",
     "cholesterol"}

\* FoodEntry.to_dict
to_dict(row) ==
    [ id |-> row.id, food_name |-> row.food_name, calories |-> row.calories,
      protein |-> row.protein, fat |-> row.fat, carbs |-> row.carbs,
      fiber |-> row.fiber, sugar |-> row.sugar, sodium |-> row.sodium,
      cholesterol |-> row.cholesterol, timestamp |-> row.timestamp ]

\* add_food_entry; e: the keyword arguments; fault: the commit raises
\* SQLAlchemyError.  src is history only: the photo the values come from.
add_food_entry(w, u, e, src, fault) ==
    LET dt == get_current_datetime(w, u)
        w1 == dt.w
        row == [ id |-> w1.next_id, user_id |-> u, food_name |-> e.food_name,
                 calories |-> e.calories, protein |-> e.protein,
                 fat |-> e.fat, carbs |-> e.carbs, fiber |-> e.fiber,
                 sugar |-> e.sugar, sodium |-> e.sodium,
                 cholesterol |-> e.cholesterol,
                 timestamp |-> BindDateTime(dt.ret), src |-> src ]
    IN  IF fault
        THEN Result(w1, [to_dict(row) EXCEPT
                            !.id = 0, !.timestamp = WallClock(dt.ret)])
        ELSE Result([w1 EXCEPT !.food = @ \cup {row}, !.next_id = @ + 1],
                    to_dict(row))

update_food_entry_any_owner(w, u, entry_id, m, fault) ==
    LET found == {r \in w.food : r.id = entry_id}
    IN  IF fault \/ found = {} THEN Result(w, FALSE)
        ELSE LET r == CHOOSE x \in found : TRUE
             IN  Result([w EXCEPT !.food = (@ \ {r}) \cup
                            {[r EXCEPT !.fiber = Val(m.fiber)]}], TRUE)

\* update_food_entry; m: fiber, sugar, sodium, cholesterol, each optional
update_food_entry(w, u, entry_id, m, fault) ==
    LET found == {r \in w.food : r.id = entry_id /\ r.user_id = u}
    IN  IF fault \/ found = {} THEN Result(w, FALSE)
        ELSE LET r == CHOOSE x \in found : TRUE
                 r2 == [r EXCEPT
                          !.fiber = IF m.fiber # None THEN Val(m.fiber) ELSE @,
                          !.sugar = IF m.sugar # None THEN Val(m.sugar) ELSE @,
                          !.sodium = IF m.sodium # None THEN Val(m.sodium)
                                     ELSE @,
                          !.cholesterol = IF m.cholesterol # None
                                          THEN Val(m.cholesterol) ELSE @]
             IN  Result([w EXCEPT !.food = (@ \ {r}) \cup {r2}], TRUE)

\* every way to list the rows newest first (ORDER BY timestamp DESC leaves
\* the order of rows with equal timestamps open)
RECURSIVE NewestFirst(_)
NewestFirst(rows) ==
    IF rows = {} THEN {<<>>}
    ELSE UNION { { <<to_dict(r)>> \o rest : rest \in NewestFirst(rows \ {r}) } :
                 r \in {x \in rows : \A y \in rows : x.timestamp >= y.timestamp} }

\* the rows the query of get_entries_by_date / get_stats_by_date selects
RowsInWindow(food, u, D, offset) ==
    {r \in food : InTargetWindow(r, u, D, offset)}

\* get_entries_by_date: ret is the set of lists the query may return
get_entries_by_date(w, u, D) ==
    LET tz == timezone(w, u)
    IN  Result(tz.w, NewestFirst(RowsInWindow(tz.w.food, u, D, tz.ret)))

delete_entry_any_owner(w, u, entry_id, fault) ==
    LET found == {r \in w.food : r.id = entry_id}
    IN  IF fault \/ found = {} THEN Result(w, FALSE)
        ELSE Result([w EXCEPT !.food = @ \ found], TRUE)

\* delete_entry; fault: the session raises SQLAlchemyError
delete_entry(w, u, entry_id, fault) ==
    LET found == {r \in w.food : r.id = entry_id /\ r.user_id = u}
    IN  IF fault \/ found = {} THEN Result(w, FALSE)
        ELSE Result([w EXCEPT !.food = @ \ found], TRUE)

\* delete_entry_by_index: the set of results, one for each list the query of
\* today's entries may return
delete_entry_by_index(w, u, index, fault) ==
    LET today == get_current_date(w, u)
        listed == get_entries_by_date(today.w, u, today.ret)
    IN  { IF index < 0 \/ index >= Len(entries)
          THEN Result(listed.w, FALSE)
          ELSE delete_entry(listed.w, u, entries[index + 1].id, fault) :
          entries \in listed.ret }

---------------------------------------------------------------------------
(* DBUserData: limits.                                                     *)

set_calorie_limit_unchecked(w, u, limit, fault) ==
    LET w1 == [w EXCEPT !.cache[u].calorie_limit = Some(limit)]
    IN  IF ~fault /\ u \in DOMAIN w1.users
        THEN [w1 EXCEPT !.users[u].calorie_limit = Some(limit)]
        ELSE w1

\* set_calorie_limit (returns nothing); fault: SQLAlchemyError
set_calorie_limit(w, u, limit, fault) ==
    IF limit <= 0 THEN w
    ELSE LET w1 == [w EXCEPT !.cache[u].calorie_limit = Some(limit)]
         IN  IF ~fault /\ u \in DOMAIN w1.users
             THEN [w1 EXCEPT !.users[u].calorie_limit = Some(limit)]
             ELSE w1

\* calories = protein * 4 + fat * 9 + carbs * 4
MacroCalories(protein, fat, carbs) == protein * 4 + fat * 9 + carbs * 4

\* int(calories): the fraction of a kcal is cut off
IntCalories(calories) == (calories \div 100) * 100

set_macros_limits_clears_omitted(w, u, m, fault) ==
    IF m.protein <= 0 \/ m.fat <= 0 \/ m.carbs <= 0
    THEN Result(w, FALSE)
    ELSE
    LET limit == IntCalories(MacroCalories(m.protein, m.fat, m.carbs))
        w1 == [w EXCEPT
                 !.cache[u].protein_limit = Some(m.protein),
                 !.cache[u].fat_limit = Some(m.fat),
                 !.cache[u].carbs_limit = Some(m.carbs),
                 !.cache[u].fiber_limit = m.fiber,
                 !.cache[u].sugar_limit = m.sugar,
                 !.cache[u].sodium_limit = m.sodium,
                 !.cache[u].cholesterol_limit = m.cholesterol,
                 !.cache[u].calorie_limit = Some(limit)]
    IN  IF fault \/ u \notin DOMAIN w1.users THEN Result(w1, FALSE)
        ELSE Result([w1 EXCEPT
                       !.users[u].protein_limit = Some(m.protein),
                       !.users[u].fat_limit = Some(m.fat),
                       !.users[u].carbs_limit = Some(m.carbs),
                       !.users[u].calorie_limit = Some(limit),
                       !.users[u].fiber_limit = m.fiber],
                    TRUE)

\* set_macros_limits; m: protein, fat, carbs and the optional fiber, sugar,
\* sodium, cholesterol.  The users table has no sugar / sodium / cholesterol
\* column in models.User, so these live on the cached object only.
\* int(calories) raises ValueError when one of the three is NaN: the object
\* then has the new limits but the old calorie limit.
set_macros_limits(w, u, m, fault) ==
    IF \/ ~IsNaN(m.protein) /\ m.protein <= 0
       \/ ~IsNaN(m.fat) /\ m.fat <= 0
       \/ ~IsNaN(m.carbs) /\ m.carbs <= 0
    THEN Result(w, FALSE)
    ELSE
    LET limit == IntCalories(MacroCalories(m.protein, m.fat, m.carbs))
        w0 == [w EXCEPT
                 !.cache[u].protein_limit = Some(m.protein),
                 !.cache[u].fat_limit = Some(m.fat),
                 !.cache[u].carbs_limit = Some(m.carbs),
                 !.cache[u].fiber_limit = IF m.fiber # None THEN m.fiber ELSE @,
                 !.cache[u].sugar_limit = IF m.sugar # None THEN m.sugar ELSE @,
                 !.cache[u].sodium_limit =
                     IF m.sodium # None THEN m.sodium ELSE @,
                 !.cache[u].cholesterol_limit =
                     IF m.cholesterol # None THEN m.cholesterol ELSE @]
        w1 == [w0 EXCEPT !.cache[u].calorie_limit = Some(limit)]
    IN  IF IsNaN(m.protein) \/ IsNaN(m.fat) \/ IsNaN(m.carbs)
        THEN Raised(w0, "ValueError")
        ELSE IF fault \/ u \notin DOMAIN w1.users THEN Result(w1, FALSE)
        ELSE Result([w1 EXCEPT
                       !.users[u].protein_limit = Some(m.protein),
                       !.users[u].fat_limit = Some(m.fat),
                       !.users[u].carbs_limit = Some(m.carbs),
                       !.users[u].calorie_limit = Some(limit),
                       !.users[u].fiber_limit =
                           IF /\ m.fiber # None /\ ~IsNaN(Val(m.fiber))
                              /\ Val(m.fiber) > 0
                           THEN m.fiber ELSE @],
                    TRUE)

\* round(value * factor, 1) of set_user_body_metrics; the factor is given in
\* tenths
Scaled1(value, tenths) ==
    IF IsNaN(value) THEN NaN ELSE 10 * RoundDiv(value * tenths, 100)

\* round(lean_body_mass * 2, 1) with lean_body_mass = weight * (1 -
\* body_fat / 100); body_fat in hundredths of a percent
LeanProtein(weight, body_fat) ==
    IF IsNaN(weight) \/ IsNaN(body_fat) THEN NaN
    ELSE 10 * RoundDiv(2 * weight * (10000 - body_fat), 100000)

\* the limits set_user_body_metrics derives
DerivedLimits(weight, body_fat) ==
    [ protein |-> LeanProtein(weight, body_fat),
      fat |-> Scaled1(weight, 10),
      carbs |-> Scaled1(weight, 30),
      fiber |-> Some(Scaled1(weight, 3)),
      sugar |-> Some(Scaled1(weight, 5)),
      sodium |-> Some(Scaled1(weight, 200)),
      cholesterol |-> Some(Scaled1(weight, 30)) ]

\* set_user_body_metrics; fault_macros: the session of set_macros_limits
\* raises SQLAlchemyError; fault: the session of the method itself does.
\* What set_macros_limits returns is not looked at.
set_user_body_metrics(w, u, weight, body_fat, fault_macros, fault) ==
    IF \/ ~IsNaN(weight) /\ weight <= 0
       \/ ~IsNaN(body_fat) /\ (body_fat < 0 \/ body_fat > 10000)
    THEN Result(w, FALSE)
    ELSE
    LET w1 == [w EXCEPT !.cache[u].user_weight = Some(weight),
                        !.cache[u].body_fat_percentage = Some(body_fat)]
        r == set_macros_limits(w1, u, DerivedLimits(weight, body_fat),
                               fault_macros)
    IN  IF Raises(r) THEN r
        ELSE IF fault \/ u \notin DOMAIN r.w.users THEN Result(r.w, FALSE)
        ELSE Result([r.w EXCEPT
                       !.users[u].user_weight = Some(weight),
                       !.users[u].body_fat_percentage = Some(body_fat)],
                    TRUE)

---------------------------------------------------------------------------
(* DBUserData: daily statistics.                                           *)

\* func.sum(FoodEntry.<field>) over the selected rows ("or 0" when empty)
RECURSIVE SumField(_, _)
SumField(rows, f) ==
    IF rows = {} THEN 0
    ELSE LET r == CHOOSE x \in rows : TRUE
         IN  r[f] + SumField(rows \ {r}, f)

\* the profile attribute that limits a nutrient
LimitOf(profile, X) ==
    CASE X = "calories" -> profile.calorie_limit
      [] X = "protein" -> profile.protein_limit
      [] X = "fat" -> profile.fat_limit
      [] X = "carbs" -> profile.carbs_limit
      [] X = "fiber" -> profile.fiber_limit
      [] X = "sugar" -> profile.sugar_limit
      [] X = "sodium" -> profile.sodium_limit
      [] X = "cholesterol" -> profile.cholesterol_limit

\* min(100, (total / limit) * 100) as the fraction num / limit
ClampedRatio(total, limit) ==
    IF total * 100 > 100 * limit THEN 100 * limit ELSE total * 100

PercentageOfLimit_unclamped(total, limit) ==
    IF limit # None /\ Val(limit) > 0
    THEN RoundDiv(total * 1000, Val(limit))
    ELSE 0

\* "<x>_percentage": 0 unless the limit is set and > 0; else
\* round(min(100, (total / limit) * 100), 1), in tenths of a percent
PercentageOfLimit(total, limit) ==
    IF limit # None /\ Val(limit) > 0
    THEN RoundDiv(ClampedRatio(total, Val(limit)) * 10, Val(limit))
    ELSE 0

StatsOf_empty_without_limits(profile, rows, D) ==
    [ date |-> D,
      entries |-> Cardinality(rows),
      total |-> [X \in NutrientFields |-> Round1(SumField(rows, X))],
      limit |-> [X \in NutrientFields |->
                   IF rows = {} THEN None ELSE LimitOf(profile, X)],
      percentage |-> [X \in NutrientFields |->
                        PercentageOfLimit(SumField(rows, X),
                                          LimitOf(profile, X))] ]

\* the dictionary get_stats_by_date builds from the selected rows:
\* "entries", the totals "<x>", the limits "<x>_limit" and the percentages
\* "<x>_percentage", the last three keyed here by nutrient
StatsOf(profile, rows, D) ==
    [ date |-> D,
      entries |-> Cardinality(rows),
      total |-> [X \in NutrientFields |-> Round1(SumField(rows, X))],
      limit |-> [X \in NutrientFields |-> LimitOf(profile, X)],
      percentage |-> [X \in NutrientFields |->
                        PercentageOfLimit(SumField(rows, X),
                                          LimitOf(profile, X))] ]

StatsRows_end_excluded(food, u, D, offset) ==
    {r \in food :
        /\ r.user_id = u
        /\ r.timestamp >= BindDateTime(AsUtc(TargetStart(D, offset)))
        /\ r.timestamp < BindDateTime(AsUtc(TargetEnd(D, offset)))}

\* the rows the aggregate query of get_stats_by_date selects
StatsRows(food, u, D, offset) ==
    {r \in food : InTargetWindow(r, u, D, offset)}

get_stats_by_date(w, u, D) ==
    LET tz == timezone(w, u)
    IN  Result(tz.w,
               StatsOf(tz.w.cache[u], StatsRows(tz.w.food, u, D, tz.ret), D))

get_today_stats(w, u) ==
    LET today == get_current_date(w, u)
    IN  get_stats_by_date(today.w, u, today.ret)

---------------------------------------------------------------------------
(* DBUserData: progress bars.  A bar is the sequence of its cells.         *)

\* Python's str * n
Repeat(glyph, n) == [i \in 1 .. n |-> glyph]

FilledChars_unclamped(percentage, width) == (percentage * width) \div 1000

\* filled_chars = min(int(percentage / 100 * width), width)
FilledChars(percentage, width) ==
    Min((percentage * width) \div 1000, width)

\* the colour band of the calorie bar
BandOf(percentage) ==
    IF percentage < 850 THEN "on_track"
    ELSE IF percentage < 1000 THEN "near_limit"
    ELSE "over_limit"

\* generate_calorie_progress_bar: the cells and the printed int(percentage)
generate_calorie_progress_bar(percentage, width) ==
    LET filled_chars == FilledChars(percentage, width)
        empty_chars == width - filled_chars
    IN  [ cells |-> Repeat(BandOf(percentage), filled_chars)
                    \o Repeat("empty", empty_chars),
          label |-> percentage \div 10 ]

---------------------------------------------------------------------------
(* Initial states: a fresh deployment (empty tables, empty cache, no       *)
(* conversation), at the first sampled instant.                            *)

NoView == [kind |-> "none"]

InitStore ==
    /\ users_tbl = <<>>
    /\ food_tbl = {}
    /\ next_id = 1
    /\ cache = <<>>

InitConversation ==
    /\ fsm_state = [u \in Users |-> "none"]
    /\ fsm_data = [u \in Users |-> <<>>]
    /\ view = [u \in Users |-> NoView]
    /\ next_photo = 1
    /\ created = <<>>
    /\ running = {}

InitClock ==
    /\ now = HMS(1, 4, 0, 0)
    /\ backend \in Backends

Commit(w) ==
    /\ users_tbl' = w.users
    /\ cache' = w.cache
    /\ food_tbl' = w.food
    /\ next_id' = w.next_id
    /\ now' = w.now

\* the clock moves on while a row is committed: no two rows are stamped in
\* the same instant
TimePasses(w) == [w EXCEPT !.now = @ + 1]

\* time passes between two events
Tick ==
    /\ \E t \in Instants : t > now /\ now' = t
    /\ last' = [op |-> "tick"]
    /\ UNCHANGED <<backend, users_tbl, food_tbl, next_id, cache, fsm_state,
                   fsm_data, view, next_photo, created, args, running>>

---------------------------------------------------------------------------
(* SpecBar: generate_calorie_progress_bar applied to every percentage and  *)
(* width within the bounds.                                                *)

InitBar ==
    /\ InitStore /\ InitConversation
    /\ now = HMS(1, 4, 0, 0) /\ backend = "instant"
    /\ args \in [percentage : 0 .. MaxBarPercentage, width : 0 .. MaxWidth]
    /\ last = [op |-> "init"]

RenderCalorieBar ==
    /\ last.op = "init"
    /\ last' = [ op |-> "generate_calorie_progress_bar",
                 ret |-> generate_calorie_progress_bar(args.percentage,
                                                       args.width) ]
    /\ UNCHANGED <<now, backend, users_tbl, food_tbl, next_id, cache,
                   fsm_state, fsm_data, view, next_photo, created, args,
                   running>>

NextBar == RenderCalorieBar

SpecBar == InitBar /\ [][NextBar]_vars

\* C7: clamping law of the calorie bar.  At 100 % or more the bar is exactly
\* `width` cells of the over-limit glyph and no empty cell, however far the
\* percentage is above 100; below 100 % the bar has exactly `width` cells,
\* the filled ones first.
C7_BarClamped ==
    last.op = "generate_calorie_progress_bar" =>
        LET cells == last.ret.cells
        IN  /\ Len(cells) = args.width
            /\ args.percentage >= 1000 =>
                 \A i \in 1 .. args.width : cells[i] = "over_limit"
            /\ args.percentage < 1000 =>
                 \E k \in 0 .. args.width :
                    /\ \A i \in 1 .. k : cells[i] = BandOf(args.percentage)
                    /\ \A i \in k + 1 .. args.width : cells[i] = "empty"

C7_Witness ==
    /\ last.op = "generate_calorie_progress_bar"
    /\ args.percentage = MaxBarPercentage
    /\ args.width = 10
    /\ last.ret.cells = [i \in 1 .. 10 |-> "over_limit"]

---------------------------------------------------------------------------
(* SpecDiary: the diary operations of DBUserData called for two users at   *)
(* the sampled instants, on either engine.                                 *)

\* keyword arguments of add_food_entry (quantities in hundredths)
DiaryFoods ==
    { [ food_name |-> "salad", calories |-> 22025, protein |-> 510,
        fat |-> 1700, carbs |-> 1000, fiber |-> 250, sugar |-> 0,
        sodium |-> 0, cholesterol |-> 0 ],
      [ food_name |-> "pasta", calories |-> 45000, protein |-> 1200,
        fat |-> 1500, carbs |-> 6500, fiber |-> 0, sugar |-> 0,
        sodium |-> 0, cholesterol |-> 0 ] }

\* codes passed to set_timezone; "XXX" is not in the registry
TimezoneInputs == {"VLAD", "XXX"}

InitDiary ==
    /\ InitStore /\ InitConversation /\ InitClock
    /\ args = <<>>
    /\ last = [op |-> "init"]

CallSetTimezone(u, code, fault) ==
    LET r == set_timezone(get_user_data(World, u), u, code, fault)
    IN  /\ Commit(r.w)
        /\ last' = [op |-> "set_timezone", u |-> u, ret |-> r.ret,
                    code |-> code, fault |-> fault]
        /\ UNCHANGED <<backend, fsm_state, fsm_data, view, next_photo,
                       created, args, running>>

\* local: the wall-clock reading of the owner's clock when the row is stamped
CallAddFoodEntry(u, e, fault) ==
    LET w0 == get_user_data(World, u)
        r == add_food_entry(w0, u, e, 0, fault)
    IN  /\ next_id <= MaxEntries
        /\ Commit(IF fault THEN r.w ELSE TimePasses(r.w))
        /\ last' = [op |-> "add_food_entry", u |-> u, ret |-> r.ret,
                    fault |-> fault,
                    local |-> WallClock(get_current_datetime(w0, u).ret)]
        /\ UNCHANGED <<backend, fsm_state, fsm_data, view, next_photo,
                       created, args, running>>

\* existed: a row with this id owned by u was stored when the call was made;
\* removed: the rows the call took out of the table
CallDeleteEntry(u, entry_id, fault) ==
    LET w0 == get_user_data(World, u)
        r == delete_entry(w0, u, entry_id, fault)
    IN  /\ Commit(r.w)
        /\ last' = [op |-> "delete_entry", u |-> u, entry_id |-> entry_id,
                    ret |-> r.ret, fault |-> fault,
                    existed |-> \E x \in food_tbl :
                                   x.id = entry_id /\ x.user_id = u,
                    removed |-> food_tbl \ r.w.food]
        /\ UNCHANGED <<backend, fsm_state, fsm_data, view, next_photo,
                       created, args, running>>

CallDeleteEntryByIndex(u, index, fault) ==
    \E r \in delete_entry_by_index(get_user_data(World, u), u, index, fault) :
        /\ Commit(r.w)
        /\ last' = [op |-> "delete_entry_by_index", u |-> u, ret |-> r.ret]
        /\ UNCHANGED <<backend, fsm_state, fsm_data, view, next_photo,
                       created, args, running>>

NextDiary ==
    \/ Tick
    \/ \E u \in Users, code \in TimezoneInputs, fault \in BOOLEAN :
          CallSetTimezone(u, code, fault)
    \/ \E u \in Users, e \in DiaryFoods, fault \in BOOLEAN :
          CallAddFoodEntry(u, e, fault)

SpecDiary == InitDiary /\ [][NextDiary]_vars

---------------------------------------------------------------------------
(* SpecNutrientBar: generate_nutrient_progress_bar applied to values,      *)
(* targets, nutrient types and widths.  Values and targets are in          *)
(* hundredths of a gram (of a milligram for sodium and cholesterol); the   *)
(* percentage of this bar is a whole number of percents.                   *)

NutrientTypes ==
    {"protein", "fat", "carbs", "fiber", "sugar", "sodium", "cholesterol"}

\* the target the bar uses when none is set
FallbackTarget(nutrient_type) ==
    IF nutrient_type = "protein" THEN Some(7500)
    ELSE IF nutrient_type = "fat" THEN Some(6000)
    ELSE IF nutrient_type = "carbs" THEN Some(25000)
    ELSE IF nutrient_type = "fiber" THEN Some(2500)
    ELSE IF nutrient_type = "sugar" THEN Some(5000)
    ELSE IF nutrient_type = "sodium" THEN Some(230000)
    ELSE IF nutrient_type = "cholesterol" THEN Some(30000)
    ELSE None

\* the glyph of the filled cells
BarChar(nutrient_type) ==
    IF nutrient_type \in NutrientTypes THEN nutrient_type ELSE "unknown"

generate_nutrient_progress_bar_no_fallback(value, target, nutrient_type, width) ==
    LET target_value == IF target # None THEN Val(target) ELSE 0
        percentage == IF target_value > 0
                      THEN Min(100, (value * 100) \div target_value) ELSE 0
        filled_chars == FilledChars(percentage * 10, width)
    IN  [ cells |-> Repeat(BarChar(nutrient_type), filled_chars)
                    \o Repeat("empty", width - filled_chars),
          label |-> percentage ]

\* generate_nutrient_progress_bar: the cells and the printed percentage
generate_nutrient_progress_bar(value, target, nutrient_type, width) ==
    LET target1 == IF target = None \/ Val(target) <= 0
                   THEN FallbackTarget(nutrient_type) ELSE target
        target_value == IF target1 # None THEN Val(target1) ELSE 0
        percentage == IF target_value > 0
                      THEN Min(100, (value * 100) \div target_value) ELSE 0
        filled_chars == FilledChars(percentage * 10, width)
        empty_chars == width - filled_chars
    IN  [ cells |-> Repeat(BarChar(nutrient_type), filled_chars)
                    \o Repeat("empty", empty_chars),
          label |-> percentage ]

\* consumed amounts: nothing, and amounts below, at and above the targets
NutrientValues == {0, 1000, 2125, 2500, 5000, 9000, 10000, 15000, 500000}

\* targets: unset, 0, negative, 25 and 100
NutrientTargets == {None, Some(0), Some(-100), Some(2500), Some(10000)}

\* the default width, an empty bar and the widest bar
NutrientWidths == {0, 10, MaxWidth}

InitNutrientBar ==
    /\ InitStore /\ InitConversation
    /\ now = HMS(1, 4, 0, 0) /\ backend = "instant"
    /\ args \in [ value : NutrientValues, target : NutrientTargets,
                  nutrient_type : NutrientTypes \cup {"water"},
                  width : NutrientWidths ]
    /\ last = [op |-> "init"]

RenderNutrientBar ==
    /\ last.op = "init"
    /\ last' = [ op |-> "generate_nutrient_progress_bar",
                 ret |-> generate_nutrient_progress_bar(
                            args.value, args.target, args.nutrient_type,
                            args.width) ]
    /\ UNCHANGED <<now, backend, users_tbl, food_tbl, next_id, cache,
                   fsm_state, fsm_data, view, next_photo, created, args,
                   running>>

NextNutrientBar == RenderNutrientBar

SpecNutrientBar == InitNutrientBar /\ [][NextNutrientBar]_vars

----------------------------------------------------------------------------
(* SpecDelete: rows are added and deleted, by id and by display index, by  *)
(* two users.                                                              *)

NextDelete ==
    \/ \E u \in Users, e \in DiaryFoods, fault \in BOOLEAN :
          CallAddFoodEntry(u, e, fault)
    \/ \E u \in Users, entry_id \in 0 .. MaxEntries + 1, fault \in BOOLEAN :
          CallDeleteEntry(u, entry_id, fault)
    \/ \E u \in Users, index \in -1 .. MaxEntries, fault \in BOOLEAN :
          CallDeleteEntryByIndex(u, index, fault)

SpecDelete == InitDiary /\ [][NextDelete]_vars

---------------------------------------------------------------------------
(* SpecUpdate: rows are added, updated with micro-nutrients and deleted by *)
(* two users, on a store whose sessions may raise SQLAlchemyError.         *)

\* keyword arguments of update_food_entry: all four nutrients, fiber alone
UpdateInputs ==
    { [ fiber |-> Some(400), sugar |-> Some(1200), sodium |-> Some(30000),
        cholesterol |-> Some(5000) ],
      [ fiber |-> Some(100), sugar |-> None, sodium |-> None,
        cholesterol |-> None ] }

CallUpdateFoodEntry(u, entry_id, m, fault) ==
    LET r == update_food_entry(get_user_data(World, u), u, entry_id, m, fault)
    IN  /\ Commit(r.w)
        /\ last' = [op |-> "update_food_entry", u |-> u,
                    entry_id |-> entry_id, m |-> m, ret |-> r.ret,
                    fault |-> fault]
        /\ UNCHANGED <<backend, fsm_state, fsm_data, view, next_photo,
                       created, args, running>>

NextUpdate ==
    \/ \E u \in Users, e \in DiaryFoods, fault \in BOOLEAN :
          CallAddFoodEntry(u, e, fault)
    \/ \E u \in Users, entry_id \in 0 .. MaxEntries + 1, m \in UpdateInputs,
          fault \in BOOLEAN :
          CallUpdateFoodEntry(u, entry_id, m, fault)
    \/ \E u \in Users, entry_id \in 1 .. MaxEntries, fault \in BOOLEAN :
          CallDeleteEntry(u, entry_id, fault)

SpecUpdate == InitDiary /\ [][NextUpdate]_vars

----------------------------------------------------------------------------
(* bot/storage.py: the in-memory UserData, whose records take their id     *)
(* from the clock.  bot/handlers.py works on DBUserData and imports        *)
(* nothing of this class; SpecMemory calls its methods directly.           *)
(* cache is user_data_storage: the UserData object of each user.           *)

\* FoodEntry.__init__: id = int(timestamp.timestamp()), the whole seconds
FoodEntry_init(w, e) ==
    [ food_name |-> e.food_name, calories |-> e.calories,
      protein |-> e.protein, fat |-> e.fat, carbs |-> e.carbs,
      timestamp |-> w.now, id |-> w.now \div Second ]

\* UserData.__init__
UserData_init ==
    [ calorie_limit |-> None, food_entries |-> <<>>,
      timezone_code |-> DefaultTimezoneCode ]

\* UserData.add_food_entry
UserData_add_food_entry(w, u, e) ==
    LET entry == FoodEntry_init(w, e)
    IN  Result([w EXCEPT !.cache[u].food_entries = Append(@, entry)],
               entry)

\* UserData.delete_entry: the first entry of the list with this id goes
UserData_delete_entry(w, u, entry_id) ==
    LET entries == w.cache[u].food_entries
        hits == {i \in 1 .. Len(entries) : entries[i].id = entry_id}
    IN  IF hits = {} THEN Result(w, FALSE)
        ELSE LET i == CHOOSE k \in hits : \A j \in hits : k <= j
             IN  Result([w EXCEPT !.cache[u].food_entries =
                            SubSeq(entries, 1, i - 1)
                            \o SubSeq(entries, i + 1, Len(entries))],
                        TRUE)

\* entries the in-memory store holds before the model stops adding
MaxMemoryEntries == 3

\* entries added after one sampled instant before the model stops adding
MaxBurst == 2

InitMemory ==
    /\ users_tbl = <<>> /\ food_tbl = {} /\ next_id = 1
    /\ cache = [u \in Users |-> UserData_init]
    /\ InitConversation
    /\ now = HMS(1, 4, 0, 0) /\ backend = "instant"
    /\ args = <<>>
    /\ last = [op |-> "init"]

\* the clock moves on by one tick while the entry is appended
MemoryAddFoodEntry(u, e) ==
    LET r == UserData_add_food_entry(World, u, e)
    IN  /\ Len(cache[1].food_entries) + Len(cache[2].food_entries)
              < MaxMemoryEntries
        /\ \E t \in Instants : t <= now /\ now < t + MaxBurst
        /\ Commit(TimePasses(r.w))
        /\ last' = [op |-> "add_food_entry", u |-> u, entry |-> r.ret]
        /\ UNCHANGED <<backend, fsm_state, fsm_data, view, next_photo,
                       created, args, running>>

\* the caller addresses the entry at `position` of its list by its id;
\* removed: the positions of the list that the call took out
MemoryDeleteEntry(u, position) ==
    LET entries == cache[u].food_entries
        r == UserData_delete_entry(World, u, entries[position].id)
    IN  /\ position \in 1 .. Len(entries)
        /\ Commit(r.w)
        /\ last' = [op |-> "delete_entry", u |-> u, position |-> position,
                    ret |-> r.ret,
                    kept |-> r.w.cache[u].food_entries =
                             SubSeq(entries, 1, position - 1)
                             \o SubSeq(entries, position + 1, Len(entries))]
        /\ UNCHANGED <<backend, fsm_state, fsm_data, view, next_photo,
                       created, args, running>>

NextMemory ==
    \/ Tick
    \/ \E u \in Users, e \in DiaryFoods : MemoryAddFoodEntry(u, e)
    \/ \E u \in Users, position \in 1 .. MaxMemoryEntries :
          MemoryDeleteEntry(u, position)

SpecMemory == InitMemory /\ [][NextMemory]_vars

----------------------------------------------------------------------------
(* bot/handlers.py: the meal list, the meal detail and the delete button.  *)
(* view[u] is the message the user's buttons belong to:                    *)
(*   [kind |-> "meals", date, n]   the list of a date with n meal buttons  *)
(*   [kind |-> "meal", index, ...] the detail of the meal at that index;   *)
(*       date and shown are history (the date of the list the detail was   *)
(*       opened from and the id of the row whose values are displayed):    *)
(*       the message itself carries the index only.                        *)

\* show_meals; current_date is None (today in the user's zone) or a date
show_meals(w, u, current_date) ==
    LET w0 == get_user_data(w, u)
        today == get_current_date(w0, u)
        D == IF current_date = None THEN today.ret ELSE Val(current_date)
        w1 == IF current_date = None THEN today.w ELSE w0
        listed == get_entries_by_date(w1, u, D)
        meals == CHOOSE m \in listed.ret : TRUE
    IN  Result(listed.w, [kind |-> "meals", date |-> D, n |-> Len(meals)])

\* process_meal_info for the button meal_info:<meal_index> of the list v;
\* one result for each list the query may return
process_meal_info(w, u, v, meal_index) ==
    LET listed == get_entries_by_date(get_user_data(w, u), u, v.date)
    IN  { IF meal_index >= Len(meals)
          THEN Result(listed.w, v)
          ELSE Result(listed.w,
                      [kind |-> "meal", index |-> meal_index,
                       date |-> v.date, shown |-> meals[meal_index + 1].id]) :
          meals \in listed.ret }

\* process_delete_meal for the button delete_meal:<index> of the detail v
process_delete_meal(w, u, v, fault) ==
    { IF r.ret THEN show_meals(r.w, u, None) ELSE Result(r.w, v) :
      r \in delete_entry_by_index(get_user_data(w, u), u, v.index, fault) }

ShowMealsPressed(u) ==
    LET r == show_meals(World, u, None)
    IN  /\ Commit(r.w)
        /\ view' = [view EXCEPT ![u] = r.ret]
        /\ last' = [op |-> "show_meals", u |-> u]
        /\ UNCHANGED <<backend, fsm_state, fsm_data, next_photo, created,
                       args, running>>

MealInfoPressed(u, meal_index) ==
    /\ view[u].kind = "meals"
    /\ meal_index < view[u].n
    /\ \E r \in process_meal_info(World, u, view[u], meal_index) :
          /\ Commit(r.w)
          /\ view' = [view EXCEPT ![u] = r.ret]
          /\ last' = [op |-> "process_meal_info", u |-> u]
    /\ UNCHANGED <<backend, fsm_state, fsm_data, next_photo, created, args,
                   running>>

\* the ids recordsOnDate(u, D) shows at display index i (one id unless rows
\* tie on their timestamp; none when i is out of bounds)
IdsAtIndex(u, D, i) ==
    { entries[i + 1].id :
        entries \in { l \in get_entries_by_date(get_user_data(World, u),
                                                u, D).ret : i < Len(l) } }

\* expected: the ids the list of the viewed date shows at the index when the
\* button is pressed; removed: the ids of the rows the handler removed
DeleteMealPressed(u, fault) ==
    /\ view[u].kind = "meal"
    /\ \E r \in process_delete_meal(World, u, view[u], fault) :
          /\ Commit(r.w)
          /\ view' = [view EXCEPT ![u] = r.ret]
          /\ last' = [op |-> "process_delete_meal", u |-> u,
                      date |-> view[u].date, index |-> view[u].index,
                      shown |-> view[u].shown, fault |-> fault,
                      expected |-> IdsAtIndex(u, view[u].date, view[u].index),
                      removed |-> {x.id : x \in food_tbl \ r.w.food}]
    /\ UNCHANGED <<backend, fsm_state, fsm_data, next_photo, created, args,
                   running>>

NextMeals ==
    \/ Tick
    \/ \E u \in Users, e \in DiaryFoods : CallAddFoodEntry(u, e, FALSE)
    \/ \E u \in Users : ShowMealsPressed(u)
    \/ \E u \in Users, meal_index \in 0 .. MaxEntries - 1 :
          MealInfoPressed(u, meal_index)
    \/ \E u \in Users, fault \in BOOLEAN : DeleteMealPressed(u, fault)

SpecMeals == InitDiary /\ [][NextMeals]_vars

---------------------------------------------------------------------------
(* bot/keyboards.py and bot/handlers.py: the stats view and its date       *)
(* navigation.  date.today() is the date on the clock of the process,      *)
(* whose zone is a choice of the deployment: args.process_offset.          *)
(* view[u] of a stats message:                                             *)
(*   [kind |-> "stats", date, keyboard]   the stats of a date and the      *)
(*   navigation row built for it.                                          *)

\* date.today()
date_today(w) == DateOf(w.now + args.process_offset)

\* a date object, and a string that prints a date in a format
DateObject(D) == [is |-> "date", date |-> D]
DateString(format, D) == [is |-> "str", format |-> format, date |-> D]

\* datetime.strptime(text, format).date(): None stands for ValueError
strptime(text, format) ==
    IF text.format = format THEN Some(text.date) ELSE None

\* get_stats_keyboard: label, the date on the middle button; prev, next and
\* go_today, the dates the navigation buttons lead to (None: no button)
get_stats_keyboard(current_date) ==
    LET today == date_today(World)
        current == IF current_date = None THEN today
                   ELSE IF current_date.is = "str"
                   THEN IF strptime(current_date, "%Y-%m-%d") = None
                        THEN today
                        ELSE Val(strptime(current_date, "%Y-%m-%d"))
                   ELSE current_date.date
    IN  [ label |-> current,
          prev |-> Some(current - 1),
          next |-> IF current < today THEN Some(current + 1) ELSE None,
          go_today |-> IF current # today THEN Some(today) ELSE None ]

\* get_improved_stats_keyboard: stats["date"] is the string
\* target_date.strftime("%d.%m.%Y")
get_improved_stats_keyboard(stats) ==
    get_stats_keyboard(DateString("%d.%m.%Y", stats.date))

\* the message show_stats sends for the stats it read
StatsMessage(stats, D) ==
    [ kind |-> "stats", date |-> D,
      keyboard |-> IF stats.entries = 0
                   THEN get_stats_keyboard(DateObject(D))
                   ELSE get_improved_stats_keyboard(stats) ]

\* show_stats; current_date is None (today in the user's zone) or a date
show_stats(w, u, current_date) ==
    LET w0 == get_user_data(w, u)
        D == IF current_date = None THEN get_current_date(w0, u).ret
             ELSE Val(current_date)
    IN  Result(get_stats_by_date(w0, u, D).w,
               StatsMessage(get_stats_by_date(w0, u, D).ret, D))

\* process_date_callback for a button date:<target_date>
process_date_callback(w, u, target_date) == show_stats(w, u, Some(target_date))

\* process_refresh_stats on the message v: the date is read from the text
\* of the message; a text without a date means date.today()
process_refresh_stats(w, u, v) ==
    show_stats(w, u, IF "date" \in DOMAIN v THEN Some(v.date)
                     ELSE Some(date_today(w)))

---------------------------------------------------------------------------
(* SpecToday: one user, in Moscow, Vladivostok or UTC, opens the stats at  *)
(* instants around midnight and navigates; the process runs in UTC or in   *)
(* Moscow time.                                                            *)

ProcessOffsets == {0, 3 * Hour}

TodayTimezones == {"VLAD", "UTC"}

TodayFood ==
    [ food_name |-> "salad", calories |-> 22025, protein |-> 510,
      fat |-> 1700, carbs |-> 1000, fiber |-> 250, sugar |-> 0,
      sodium |-> 0, cholesterol |-> 0 ]

InitToday ==
    /\ InitStore /\ InitConversation
    /\ now = HMS(1, 4, 0, 0)
    /\ backend = "instant"
    /\ args \in [process_offset : ProcessOffsets]
    /\ last = [op |-> "init"]

\* today in `last`: the user's current date when the message was built
StatsShown(u, op, r) ==
    /\ Commit(r.w)
    /\ view' = [view EXCEPT ![u] = r.ret]
    /\ last' = [ op |-> op, u |-> u,
                 today |-> get_current_date(get_user_data(World, u), u).ret ]
    /\ UNCHANGED <<backend, fsm_state, fsm_data, next_photo, created, args,
                   running>>

\* the menu button of the stats
ShowStatsPressed(u) == StatsShown(u, "show_stats", show_stats(World, u, None))

\* a navigation button of the stats message is pressed
DateButtonPressed(u, button) ==
    /\ view[u].kind = "stats"
    /\ view[u].keyboard[button] # None
    /\ Val(view[u].keyboard[button]) \in Dates
    /\ StatsShown(u, "process_date_callback",
                  process_date_callback(World, u,
                                        Val(view[u].keyboard[button])))

\* the refresh button of the stats message is pressed
RefreshStatsPressed(u) ==
    /\ view[u].kind = "stats"
    /\ StatsShown(u, "process_refresh_stats",
                  process_refresh_stats(World, u, view[u]))

TodayUsers == {1}

NextToday ==
    \/ Tick
    \/ \E u \in TodayUsers, code \in TodayTimezones :
          CallSetTimezone(u, code, FALSE)
    \/ \E u \in TodayUsers : CallAddFoodEntry(u, TodayFood, FALSE)
    \/ \E u \in TodayUsers : ShowStatsPressed(u)
    \/ \E u \in TodayUsers, button \in {"prev", "next", "go_today"} :
          DateButtonPressed(u, button)
    \/ \E u \in TodayUsers : RefreshStatsPressed(u)

SpecToday == InitToday /\ [][NextToday]_vars

---------------------------------------------------------------------------
(* bot/handlers.py: the photo conversation.  A handler works on the FSM    *)
(* context of its user, ctx = [state, data]; state "none" is aiogram's     *)
(* empty state (the conversation is idle), data is the FSM data dict.      *)

Context(u) == [state |-> fsm_state[u], data |-> fsm_data[u]]

\* FSMContext.clear: no state, no data
state_clear(ctx) == [state |-> "none", data |-> <<>>]

\* FSMContext.set_state
set_state(ctx, st) == [ctx EXCEPT !.state = st]

update_data_keeps_old(ctx, key, value) ==
    [ctx EXCEPT !.data = ctx.data @@ (key :> value)]

\* FSMContext.update_data(key=value)
update_data(ctx, key, value) ==
    [ctx EXCEPT !.data = (key :> value) @@ ctx.data]

\* what analyze_food_image returns when the model answers: a dictionary
\* with all nine fields
VisionEstimates ==
    { [ food_name |-> "soup", calories |-> 18050, protein |-> 700,
        fat |-> 600, carbs |-> 2200, fiber |-> 250, sugar |-> 0,
        sodium |-> 0, cholesterol |-> 0 ],
      [ food_name |-> "bread", calories |-> 26000, protein |-> 900,
        fat |-> 300, carbs |-> 4900, fiber |-> 0, sugar |-> 0,
        sodium |-> 0, cholesterol |-> 0 ] }

\* the dishes process_photo picks from when the analysis is empty
food_options ==
    { [name |-> "oatmeal", cal |-> 31000, protein |-> 800, fat |-> 500,
       carbs |-> 5500],
      [name |-> "chicken", cal |-> 25000, protein |-> 3000, fat |-> 800,
       carbs |-> 1200],
      [name |-> "greek_salad", cal |-> 22000, protein |-> 500, fat |-> 1700,
       carbs |-> 1000],
      [name |-> "borscht", cal |-> 18000, protein |-> 700, fat |-> 600,
       carbs |-> 2200],
      [name |-> "pasta", cal |-> 45000, protein |-> 1200, fat |-> 1500,
       carbs |-> 6500] }

\* the dishes random.choice picks in the model: two of the five
MockChoices == {m \in food_options : m.name \in {"borscht", "pasta"}}

\* What can happen to a photo: the download raises; analyze_food_image
\* returns an estimate; analyze_food_image returns None and random.choice
\* picks the dish `mock`.
PhotoOutcomes ==
    {[kind |-> "download_raises"]}
    \cup {[kind |-> "estimate", value |-> e] : e \in VisionEstimates}
    \cup {[kind |-> "null", mock |-> m] : m \in MockChoices}

process_photo_outside_settings(ctx, photo, outcome) ==
    IF ctx.state \notin {"none", "waiting_for_confirmation"} THEN ctx
    ELSE set_state(update_data(ctx, "analysis",
                               outcome.value @@ [ photo |-> photo,
                                                  origin |-> "vision",
                                                  replaced |-> None ]),
                   "waiting_for_confirmation")

\* process_photo.  The stored analysis carries three history fields: photo,
\* the number of the photo; origin, where its values come from; replaced,
\* the photo whose analysis was awaiting confirmation when this one was
\* stored.
process_photo(ctx, photo, outcome) ==
    IF outcome.kind = "download_raises" THEN ctx
    ELSE
    LET replaced == IF /\ ctx.state = "waiting_for_confirmation"
                       /\ "analysis" \in DOMAIN ctx.data
                    THEN Some(ctx.data.analysis.photo) ELSE None
        analysis_result ==
            IF outcome.kind = "estimate"
            THEN outcome.value @@ [ photo |-> photo, origin |-> "vision",
                                    replaced |-> replaced ]
            ELSE [ food_name |-> outcome.mock.name,
                   calories |-> outcome.mock.cal,
                   protein |-> outcome.mock.protein,
                   fat |-> outcome.mock.fat,
                   carbs |-> outcome.mock.carbs,
                   photo |-> photo, origin |-> "mock",
                   replaced |-> replaced ]
    IN  set_state(update_data(ctx, "analysis", analysis_result),
                  "waiting_for_confirmation")

\* process_confirmation, from get_user_data to update_food_entry: the row is
\* added, today's stats are read, the micro-nutrients are written again
save_analysis(w, u, analysis, fault) ==
    LET e == [ food_name |-> Get(analysis, "food_name", "unknown"),
               calories |-> Get(analysis, "calories", 0),
               protein |-> Get(analysis, "protein", 0),
               fat |-> Get(analysis, "fat", 0),
               carbs |-> Get(analysis, "carbs", 0),
               fiber |-> Get(analysis, "fiber", 0),
               sugar |-> Get(analysis, "sugar", 0),
               sodium |-> Get(analysis, "sodium", 0),
               cholesterol |-> Get(analysis, "cholesterol", 0) ]
        entry == add_food_entry(get_user_data(w, u), u, e, analysis.photo,
                                fault)
        today_stats == get_today_stats(entry.w, u)
        w3 == IF e.fiber > 0 \/ e.sugar > 0 \/ e.sodium > 0
                 \/ e.cholesterol > 0
              THEN update_food_entry(
                       today_stats.w, u, entry.ret.id,
                       [ fiber |-> Some(e.fiber), sugar |-> Some(e.sugar),
                         sodium |-> Some(e.sodium),
                         cholesterol |-> Some(e.cholesterol) ],
                       fault).w
              ELSE today_stats.w
    IN  [w |-> w3, entry |-> entry.ret, today_stats |-> today_stats.ret]

\* process_confirmation after the row was saved: the message "added" is
\* sent; ctx: the conversation it leaves
Confirmed(saved, ctx) ==
    [ w |-> saved.w, ctx |-> ctx, said |-> "added",
      entry |-> Some(saved.entry) ]

process_confirmation_keeps_state(w, u, ctx, fault) ==
    IF "analysis" \notin DOMAIN ctx.data
    THEN [ w |-> w, ctx |-> state_clear(ctx), said |-> "error",
           entry |-> None ]
    ELSE Confirmed(save_analysis(w, u, ctx.data.analysis, fault), ctx)

\* process_confirmation; entry: what add_food_entry returned
process_confirmation(w, u, ctx, fault) ==
    IF "analysis" \notin DOMAIN ctx.data
    THEN [ w |-> w, ctx |-> state_clear(ctx), said |-> "error",
           entry |-> None ]
    ELSE Confirmed(save_analysis(w, u, ctx.data.analysis, fault),
                   state_clear(ctx))

process_cancel_keeps_data(ctx) == set_state(ctx, "none")

\* process_cancel
process_cancel(ctx) == state_clear(ctx)

\* cmd_start
cmd_start(w, u, ctx) == [w |-> get_user_data(w, u), ctx |-> state_clear(ctx)]

\* the handler set_calorie_limit of bot/handlers.py (the prompt)
prompt_calorie_limit(w, u, ctx) ==
    [ w |-> get_user_data(w, u),
      ctx |-> set_state(ctx, "waiting_for_calorie_limit") ]

\* int(message.text.strip()) on the texts the model sends; None: ValueError
ParseInt(text) ==
    CASE text = "2000" -> Some(2000)
      [] text = "0" -> Some(0)
      [] text = "-5" -> Some(-5)
      [] OTHER -> None

CalorieLimitTexts == {"2000", "0", "abc"}

process_calorie_limit_adds_entry(w, u, ctx, text, fault) ==
    LET limit == ParseInt(text)
    IN  IF limit = None \/ Val(limit) <= 0
        THEN [w |-> w, ctx |-> ctx, said |-> "reprompt"]
        ELSE [ w |-> add_food_entry(
                        set_calorie_limit(get_user_data(w, u), u,
                                          Val(limit) * 100, fault),
                        u,
                        [ food_name |-> "limit",
                          calories |-> Val(limit) * 100, protein |-> 0,
                          fat |-> 0, carbs |-> 0, fiber |-> 0, sugar |-> 0,
                          sodium |-> 0, cholesterol |-> 0 ],
                        0, FALSE).w,
               ctx |-> state_clear(ctx), said |-> "limit_set" ]

\* process_calorie_limit
process_calorie_limit(w, u, ctx, text, fault) ==
    LET limit == ParseInt(text)
    IN  IF limit = None \/ Val(limit) <= 0
        THEN [w |-> w, ctx |-> ctx, said |-> "reprompt"]
        ELSE [ w |-> set_calorie_limit(get_user_data(w, u), u,
                                       Val(limit) * 100, fault),
               ctx |-> state_clear(ctx), said |-> "limit_set" ]

---------------------------------------------------------------------------
(* Spec: the photo conversation of two users within one day.  Each action  *)
(* is one update handled from start to end (the handlers of one user do    *)
(* not overlap).                                                           *)

SetContext(u, ctx) ==
    /\ fsm_state' = [fsm_state EXCEPT ![u] = ctx.state]
    /\ fsm_data' = [fsm_data EXCEPT ![u] = ctx.data]

\* rows whose values come from the analysis of the given photo
RowsFrom(food, photo) == {r \in food : r.src = photo}

Init ==
    /\ InitStore /\ InitConversation /\ InitClock
    /\ args = <<>>
    /\ last = [op |-> "init"]

\* /start
CmdStart(u) ==
    LET r == cmd_start(World, u, Context(u))
    IN  /\ Commit(r.w)
        /\ SetContext(u, r.ctx)
        /\ last' = [op |-> "cmd_start", u |-> u, before |-> fsm_state[u]]
        /\ UNCHANGED <<backend, view, next_photo, created, args, running>>

\* a photo arrives (F.photo: in any state)
PhotoReceived(u, outcome) ==
    /\ next_photo <= MaxPhotos
    /\ SetContext(u, process_photo(Context(u), next_photo, outcome))
    /\ next_photo' = next_photo + 1
    /\ created' = Append(created, 0)
    /\ last' = [op |-> "process_photo", u |-> u, kind |-> outcome.kind,
                photo |-> next_photo, outcome |-> outcome]
    /\ UNCHANGED <<now, backend, users_tbl, food_tbl, next_id, cache, view,
                   args, running>>

\* the button "confirm": process_confirmation is registered for the state
\* waiting_for_confirmation only; in any other state no handler takes the
\* update.  ConfirmHandled: the update is handled, r is what
\* process_confirmation did.  pending: the photo whose analysis was waiting; inserted: the
\* number of rows the update added; analysis: the analysis a row was added
\* from; said: the answer to the user; entry_id: the id in the dictionary
\* add_food_entry returned.
ConfirmHandled(u, fault, r) ==
    LET pending == IF "analysis" \in DOMAIN fsm_data[u]
                   THEN Some(fsm_data[u].analysis.photo) ELSE None
        inserted == Cardinality(r.w.food \ food_tbl)
    IN  /\ Commit(IF inserted > 0 THEN TimePasses(r.w) ELSE r.w)
        /\ SetContext(u, r.ctx)
        /\ created' = IF pending = None THEN created
                      ELSE [created EXCEPT ![Val(pending)] =
                              @ + Cardinality(
                                    RowsFrom(r.w.food, Val(pending))
                                    \ food_tbl)]
        /\ last' = [op |-> "confirm", u |-> u, handled |-> TRUE,
                    pending |-> pending, inserted |-> inserted,
                    fault |-> fault,
                    analysis |-> IF inserted > 0
                                 THEN fsm_data[u].analysis ELSE <<>>,
                    said |-> r.said,
                    entry_id |-> IF r.entry = None THEN None
                                 ELSE Some(Val(r.entry).id)]

ConfirmPressed(u, fault) ==
    /\ next_id <= MaxEntries
    /\ IF fsm_state[u] = "waiting_for_confirmation"
       THEN ConfirmHandled(u, fault,
                           process_confirmation(World, u, Context(u), fault))
       ELSE /\ last' = [op |-> "confirm", u |-> u, handled |-> FALSE,
                        pending |-> None, inserted |-> 0, fault |-> FALSE,
                        analysis |-> <<>>, said |-> "nothing",
                        entry_id |-> None]
            /\ UNCHANGED <<now, users_tbl, food_tbl, next_id, cache,
                           fsm_state, fsm_data, created>>
    /\ UNCHANGED <<backend, view, next_photo, args, running>>

\* the button "cancel" (in any state); before: the state it was pressed in
CancelPressed(u) ==
    /\ SetContext(u, process_cancel(Context(u)))
    /\ last' = [op |-> "process_cancel", u |-> u, before |-> fsm_state[u]]
    /\ UNCHANGED <<now, backend, users_tbl, food_tbl, next_id, cache, view,
                   next_photo, created, args, running>>

\* the settings button "set_calorie_limit" (in any state)
SetCalorieLimitPressed(u) ==
    LET r == prompt_calorie_limit(World, u, Context(u))
    IN  /\ Commit(r.w)
        /\ SetContext(u, r.ctx)
        /\ last' = [op |-> "set_calorie_limit", u |-> u]
        /\ UNCHANGED <<backend, view, next_photo, created, args, running>>

\* a text message while the bot waits for the calorie limit; fault in
\* `last`: set_calorie_limit was called and its session raised
CalorieLimitHandled(u, text, fault, r) ==
    /\ Commit(r.w)
    /\ SetContext(u, r.ctx)
    /\ last' = [op |-> "process_calorie_limit", u |-> u,
                text |-> text, said |-> r.said,
                fault |-> fault /\ r.said = "limit_set"]

CalorieLimitText(u, text, fault) ==
    /\ fsm_state[u] = "waiting_for_calorie_limit"
    /\ CalorieLimitHandled(u, text, fault,
                           process_calorie_limit(World, u, Context(u), text,
                                                 fault))
    /\ UNCHANGED <<backend, view, next_photo, created, args, running>>

Next ==
    \/ \E u \in Users : CmdStart(u)
    \/ \E u \in Users, outcome \in PhotoOutcomes : PhotoReceived(u, outcome)
    \/ \E u \in Users, fault \in BOOLEAN : ConfirmPressed(u, fault)
    \/ \E u \in Users : CancelPressed(u)
    \/ \E u \in Users : SetCalorieLimitPressed(u)
    \/ \E u \in Users, text \in CalorieLimitTexts, fault \in BOOLEAN :
          CalorieLimitText(u, text, fault)

Spec == Init /\ [][Next]_vars

---------------------------------------------------------------------------
(* SpecLimits: limits are set and rows are added for two users within one  *)
(* day, on a store that takes every write.                                 *)

NoMicroLimits ==
    [fiber |-> None, sugar |-> None, sodium |-> None, cholesterol |-> None]

\* arguments of set_macros_limits, in hundredths of a gram (sodium and
\* cholesterol: of a milligram): 120 / 70 / 300 g; 10.2 / 1 / 1 g; a protein
\* of 0; and 120 / 70 / 300 g with all four optional limits
MacroInputs ==
    { [protein |-> 12000, fat |-> 7000, carbs |-> 30000] @@ NoMicroLimits,
      [protein |-> 1020, fat |-> 100, carbs |-> 100] @@ NoMicroLimits,
      [protein |-> 0, fat |-> 7000, carbs |-> 30000] @@ NoMicroLimits,
      [ protein |-> 12000, fat |-> 7000, carbs |-> 30000,
        fiber |-> Some(3000), sugar |-> Some(5000),
        sodium |-> Some(230000), cholesterol |-> Some(30000) ] }

\* arguments of set_calorie_limit, in hundredths of a kcal: 2000, 0 and -1
CalorieLimitInputs == {200000, 0, -100}

\* keyword arguments of add_food_entry: a 2400 kcal record and a small one
LimitFoods ==
    { [ food_name |-> "feast", calories |-> 240000, protein |-> 6000,
        fat |-> 9000, carbs |-> 15000, fiber |-> 1500, sugar |-> 6000,
        sodium |-> 100000, cholesterol |-> 10000 ],
      [ food_name |-> "snack", calories |-> 77033, protein |-> 1234,
        fat |-> 710, carbs |-> 2005, fiber |-> 0, sugar |-> 1250,
        sodium |-> 0, cholesterol |-> 0 ] }

CallSetMacrosLimits(u, m, fault) ==
    LET w0 == get_user_data(World, u)
        r == set_macros_limits(w0, u, m, fault)
    IN  /\ Commit(r.w)
        /\ last' = [op |-> "set_macros_limits", u |-> u, m |-> m,
                    ret |-> r.ret]
        /\ UNCHANGED <<backend, fsm_state, fsm_data, view, next_photo,
                       created, args, running>>

CallSetCalorieLimit(u, limit, fault) ==
    /\ Commit(set_calorie_limit(get_user_data(World, u), u, limit, fault))
    /\ last' = [op |-> "set_calorie_limit", u |-> u, limit |-> limit,
                fault |-> fault]
    /\ UNCHANGED <<backend, fsm_state, fsm_data, view, next_photo, created,
                   args, running>>

NextLimits ==
    \/ \E u \in Users, m \in MacroInputs :
          CallSetMacrosLimits(u, m, FALSE)
    \/ \E u \in Users, limit \in CalorieLimitInputs :
          CallSetCalorieLimit(u, limit, FALSE)
    \/ \E u \in Users, e \in LimitFoods : CallAddFoodEntry(u, e, FALSE)

\* limits and percentages do not read the clock or the engine
InitLimits == InitDiary /\ backend = "instant"

SpecLimits == InitLimits /\ [][NextLimits]_vars

---------------------------------------------------------------------------
(* SpecProfile: the profile methods of DBUserData are called for a user,   *)
(* on a store whose sessions may raise SQLAlchemyError.                    *)

\* weights in hundredths of a kg: 0, 70 and 82.4 kg
WeightInputs == {0, 7000, 8240}

\* body fat in hundredths of a percent: -1, 25, 100 and 101 percent
BodyFatInputs == {-100, 2500, 10000, 10100}

\* arguments of set_macros_limits: 120 / 70 / 300 g with all four optional
\* limits, and a protein of 0
ProfileMacroInputs ==
    {m \in MacroInputs : m.cholesterol # None \/ m.protein = 0}

CallSetUserBodyMetrics(u, weight, body_fat, fault_macros, fault) ==
    LET r == set_user_body_metrics(get_user_data(World, u), u, weight,
                                   body_fat, fault_macros, fault)
    IN  /\ Commit(r.w)
        /\ last' = [ op |-> "set_user_body_metrics", u |-> u,
                     weight |-> weight, body_fat |-> body_fat,
                     ret |-> r.ret ]
        /\ UNCHANGED <<backend, fsm_state, fsm_data, view, next_photo,
                       created, args, running>>

\* the user the methods are called for
ProfileUsers == {1}

NextProfile ==
    \/ \E u \in ProfileUsers, weight \in WeightInputs, body_fat \in BodyFatInputs,
          fault_macros \in BOOLEAN, fault \in BOOLEAN :
          CallSetUserBodyMetrics(u, weight, body_fat, fault_macros, fault)
    \/ \E u \in ProfileUsers, m \in ProfileMacroInputs, fault \in BOOLEAN :
          CallSetMacrosLimits(u, m, fault)
    \/ \E u \in ProfileUsers, limit \in CalorieLimitInputs, fault \in BOOLEAN :
          CallSetCalorieLimit(u, limit, fault)
    \/ \E u \in ProfileUsers, code \in TimezoneInputs, fault \in BOOLEAN :
          CallSetTimezone(u, code, fault)

SpecProfile == InitLimits /\ [][NextProfile]_vars

---------------------------------------------------------------------------
(* SpecTimezone: the timezone of a profile is set and read on a store that *)
(* holds rows written before this registry was in use: a row may carry a   *)
(* code the registry does not know.  The process may restart, which drops  *)
(* the cached objects and keeps the store.                                 *)

\* the code of a stored row: two registry codes and one unknown code
StoredTimezoneCodes == {"MSK", "VLAD", "OLD"}

\* codes passed to set_timezone
TimezoneCodes == {"MSK", "VLAD", "XXX"}

InitTimezone ==
    /\ \E code \in StoredTimezoneCodes :
          users_tbl = (1 :> [NewUserRow EXCEPT !.timezone_code = code])
    /\ food_tbl = {}
    /\ next_id = 1
    /\ cache = <<>>
    /\ InitConversation
    /\ now = HMS(1, 4, 0, 0)
    /\ backend = "instant"
    /\ args = <<>>
    /\ last = [op |-> "init"]

\* user_data.timezone is read; before: the code on the object when it was
\* read; zone: the zone returned
ReadTimezone(u, fault) ==
    LET w0 == get_user_data(World, u)
    IN  /\ Commit(resolve_timezone(w0, u, fault).w)
        /\ last' = [ op |-> "timezone", u |-> u, fault |-> fault,
                     before |-> w0.cache[u].timezone_code,
                     zone |-> resolve_timezone(w0, u, fault).ret ]
        /\ UNCHANGED <<backend, fsm_state, fsm_data, view, next_photo,
                       created, args, running>>

\* user_data.get_timezone_name() is called
CallGetTimezoneName(u, fault) ==
    LET w0 == get_user_data(World, u)
    IN  /\ Commit(get_timezone_name(w0, u, fault).w)
        /\ last' = [ op |-> "get_timezone_name", u |-> u, fault |-> fault,
                     before |-> w0.cache[u].timezone_code,
                     zone |-> get_timezone_name(w0, u, fault).ret ]
        /\ UNCHANGED <<backend, fsm_state, fsm_data, view, next_photo,
                       created, args, running>>

\* the process restarts: db_user_data_cache is empty again
Restart ==
    /\ cache # <<>>
    /\ cache' = <<>>
    /\ last' = [op |-> "restart"]
    /\ UNCHANGED <<now, backend, users_tbl, food_tbl, next_id, fsm_state,
                   fsm_data, view, next_photo, created, args, running>>

NextTimezone ==
    \/ \E u \in Users, code \in TimezoneCodes, fault \in BOOLEAN :
          CallSetTimezone(u, code, fault)
    \/ \E u \in Users, fault \in BOOLEAN : ReadTimezone(u, fault)
    \/ \E u \in Users, fault \in BOOLEAN : CallGetTimezoneName(u, fault)
    \/ Restart

SpecTimezone == InitTimezone /\ [][NextTimezone]_vars

---------------------------------------------------------------------------
(* bot/handlers.py: the settings conversations (timezone, manual limits,   *)
(* body metrics).  A message is [text |-> Some(string)], or                *)
(* [text |-> None] for a message without text (a sticker, a voice note).   *)

\* float(message.text.strip()), in hundredths; message.text is None for a
\* message without text and None.strip() raises AttributeError
ParseFloat(message) ==
    IF message.text = None THEN [raises |-> "AttributeError"]
    ELSE LET text == Val(message.text)
         IN  CASE text = "-5" -> [value |-> -500]
               [] text = "0" -> [value |-> 0]
               [] text = "4" -> [value |-> 400]
               [] text = "25" -> [value |-> 2500]
               [] text = "70" -> [value |-> 7000]
               [] text = "82.4" -> [value |-> 8240]
               [] text = "400" -> [value |-> 40000]
               [] text = "nan" -> [value |-> NaN]
               [] OTHER -> [raises |-> "ValueError"]

\* The common shape of process_protein_limit ... process_sodium_limit and
\* process_weight: parse, test, update_data(key=value), ask for the next
\* value, set_state(next_state); ValueError is caught and answered with a
\* request to repeat, any other exception leaves the handler.  rejected:
\* the handler's test of the parsed value.
accumulate(ctx, message, key, rejected, next_state) ==
    LET x == ParseFloat(message)
    IN  IF Raises(x)
        THEN [ ctx |-> ctx,
               said |-> IF x.raises = "ValueError" THEN "reprompt"
                        ELSE "nothing" ]
        ELSE IF rejected THEN [ctx |-> ctx, said |-> "reprompt"]
        ELSE [ ctx |-> set_state(update_data(ctx, key, x.value), next_state),
               said |-> "next_prompt" ]

\* value <= 0, value < 0 and value > bound as Python's floats answer them
NonPositive(message) ==
    LET x == ParseFloat(message)
    IN  ~Raises(x) /\ ~IsNaN(x.value) /\ x.value <= 0

Negative(message) ==
    LET x == ParseFloat(message)
    IN  ~Raises(x) /\ ~IsNaN(x.value) /\ x.value < 0

Above(message, bound) ==
    LET x == ParseFloat(message)
    IN  ~Raises(x) /\ ~IsNaN(x.value) /\ x.value > bound

Below(message, bound) ==
    LET x == ParseFloat(message)
    IN  ~Raises(x) /\ ~IsNaN(x.value) /\ x.value < bound

\* show_timezone_selection
show_timezone_selection(w, u, ctx) ==
    [ w |-> get_user_data(w, u),
      ctx |-> set_state(ctx, "waiting_for_timezone") ]

\* set_selected_timezone
set_selected_timezone(w, u, ctx, timezone_code, fault) ==
    LET r == set_timezone(get_user_data(w, u), u, timezone_code, fault)
    IN  IF r.ret
        THEN [w |-> r.w, ctx |-> state_clear(ctx), said |-> "timezone_set"]
        ELSE [w |-> r.w, ctx |-> ctx, said |-> "invalid_timezone"]

\* back_to_settings
back_to_settings(ctx) == state_clear(ctx)

\* show_kbju_format_selection
show_kbju_format_selection(ctx) == set_state(ctx, "waiting_for_kbju_format")

\* set_manual_kbju
set_manual_kbju(w, u, ctx) ==
    [ w |-> get_user_data(w, u),
      ctx |-> set_state(ctx, "waiting_for_protein_limit") ]

process_protein_limit(ctx, message) ==
    accumulate(ctx, message, "protein_limit", NonPositive(message),
               "waiting_for_fat_limit")

process_fat_limit(ctx, message) ==
    accumulate(ctx, message, "fat_limit", NonPositive(message),
               "waiting_for_carbs_limit")

process_carbs_limit(ctx, message) ==
    accumulate(ctx, message, "carbs_limit", NonPositive(message),
               "waiting_for_fiber_limit")

process_fiber_limit(ctx, message) ==
    accumulate(ctx, message, "fiber_limit", Negative(message),
               "waiting_for_sugar_limit")

process_sugar_limit(ctx, message) ==
    accumulate(ctx, message, "sugar_limit", Negative(message),
               "waiting_for_sodium_limit")

process_sodium_limit(ctx, message) ==
    accumulate(ctx, message, "sodium_limit", Negative(message),
               "waiting_for_cholesterol_limit")

\* Python's truth of a float or None: 0 and None are false, NaN is true
Truthy(o) == o # None /\ Val(o) # 0

\* `value if value else None`
OrNone(o) == IF Truthy(o) THEN o ELSE None

\* process_cholesterol_limit; called: history, the arguments
\* set_macros_limits was called with
process_cholesterol_limit(w, u, ctx, message, fault) ==
    LET x == ParseFloat(message)
        Opt(key) == IF key \in DOMAIN ctx.data THEN Some(ctx.data[key])
                    ELSE None
        m == [ protein |-> Val(Opt("protein_limit")),
               fat |-> Val(Opt("fat_limit")),
               carbs |-> Val(Opt("carbs_limit")),
               fiber |-> OrNone(Some(Get(ctx.data, "fiber_limit", 0))),
               sugar |-> OrNone(Some(Get(ctx.data, "sugar_limit", 0))),
               sodium |-> OrNone(Some(Get(ctx.data, "sodium_limit", 0))),
               cholesterol |-> IF ~IsNaN(x.value) /\ x.value > 0
                               THEN Some(x.value) ELSE None ]
        r == set_macros_limits(get_user_data(w, u), u, m, fault)
    IN  IF Raises(x)
        THEN [ w |-> w, ctx |-> ctx, called |-> None,
               said |-> IF x.raises = "ValueError" THEN "reprompt"
                        ELSE "nothing" ]
        ELSE IF Negative(message)
        THEN [w |-> w, ctx |-> ctx, called |-> None, said |-> "reprompt"]
        ELSE IF \/ ~Truthy(Opt("protein_limit"))
                \/ ~Truthy(Opt("fat_limit"))
                \/ ~Truthy(Opt("carbs_limit"))
        THEN [ w |-> w, ctx |-> state_clear(ctx), called |-> None,
               said |-> "start_again" ]
        ELSE IF Raises(r)
        THEN [w |-> r.w, ctx |-> ctx, called |-> Some(m), said |-> "reprompt"]
        ELSE [ w |-> r.w, ctx |-> state_clear(ctx), called |-> Some(m),
               said |-> IF r.ret THEN "limits_set" ELSE "limits_not_set" ]

\* set_body_metrics (the handler that asks for the weight)
set_body_metrics(w, u, ctx) ==
    [ w |-> get_user_data(w, u),
      ctx |-> set_state(ctx, "waiting_for_weight") ]

\* 300 kg and 5 / 50 percent, in hundredths
MaxWeight == 30000
MinBodyFat == 500
MaxBodyFat == 5000

process_weight(ctx, message) ==
    accumulate(ctx, message, "weight",
               NonPositive(message) \/ Above(message, MaxWeight),
               "waiting_for_body_fat")

\* process_body_fat: ValueError is answered with a request to repeat, any
\* other exception with state.clear and the settings menu
process_body_fat(w, u, ctx, message, fault_macros, fault) ==
    LET x == ParseFloat(message)
        weight == IF "weight" \in DOMAIN ctx.data
                  THEN Some(ctx.data.weight) ELSE None
        r == set_user_body_metrics(get_user_data(w, u), u, Val(weight),
                                   x.value, fault_macros, fault)
    IN  IF Raises(x)
        THEN IF x.raises = "ValueError"
             THEN [w |-> w, ctx |-> ctx, said |-> "reprompt"]
             ELSE [w |-> w, ctx |-> state_clear(ctx), said |-> "error"]
        ELSE IF Below(message, MinBodyFat) \/ Above(message, MaxBodyFat)
        THEN [w |-> w, ctx |-> ctx, said |-> "reprompt"]
        ELSE IF ~Truthy(weight)
        THEN [w |-> w, ctx |-> state_clear(ctx), said |-> "start_again"]
        ELSE IF Raises(r)
        THEN [w |-> r.w, ctx |-> ctx, said |-> "reprompt"]
        ELSE IF r.ret
        THEN [ w |-> get_current_date(r.w, u).w, ctx |-> state_clear(ctx),
               said |-> "metrics_set" ]
        ELSE [w |-> r.w, ctx |-> state_clear(ctx), said |-> "metrics_not_set"]

---------------------------------------------------------------------------
(* SpecSettings: one user walks through the settings conversations, sends  *)
(* a photo, confirms and cancels; every update is handled from start to    *)
(* end, on a store that takes every write.                                 *)

SettingsUsers == {1}

NumberStates ==
    { "waiting_for_protein_limit", "waiting_for_fat_limit",
      "waiting_for_carbs_limit", "waiting_for_fiber_limit",
      "waiting_for_sugar_limit", "waiting_for_sodium_limit",
      "waiting_for_cholesterol_limit", "waiting_for_weight",
      "waiting_for_body_fat" }

\* the messages the user sends while a number is asked for: one without
\* text, and texts of which one or two are taken as the number
MessagesIn(st) ==
    {[text |-> None]}
    \cup { [text |-> Some(t)] :
             t \in CASE st = "waiting_for_protein_limit" ->
                          {"abc", "-5", "0", "70", "nan"}
                     [] st \in {"waiting_for_fat_limit",
                                "waiting_for_carbs_limit",
                                "waiting_for_cholesterol_limit"} ->
                          {"abc", "-5", "0", "70"}
                     [] st = "waiting_for_weight" ->
                          {"abc", "-5", "0", "70", "400"}
                     [] st = "waiting_for_body_fat" ->
                          {"abc", "-5", "4", "25", "70"}
                     [] OTHER -> {"abc", "-5", "70"} }

\* the handler the state filter of register_handlers selects
HandlerOf(st) ==
    CASE st = "waiting_for_protein_limit" -> "process_protein_limit"
      [] st = "waiting_for_fat_limit" -> "process_fat_limit"
      [] st = "waiting_for_carbs_limit" -> "process_carbs_limit"
      [] st = "waiting_for_fiber_limit" -> "process_fiber_limit"
      [] st = "waiting_for_sugar_limit" -> "process_sugar_limit"
      [] st = "waiting_for_sodium_limit" -> "process_sodium_limit"
      [] st = "waiting_for_cholesterol_limit" -> "process_cholesterol_limit"
      [] st = "waiting_for_weight" -> "process_weight"
      [] st = "waiting_for_body_fat" -> "process_body_fat"

\* what the handler registered for the state of user u does with the message
HandleNumber(u, message, fault_macros, fault) ==
    LET ctx == Context(u)
        h == HandlerOf(ctx.state)
        Only(r) == [w |-> World, ctx |-> r.ctx, said |-> r.said,
                    called |-> None]
    IN  CASE h = "process_protein_limit" ->
                Only(process_protein_limit(ctx, message))
          [] h = "process_fat_limit" ->
                Only(process_fat_limit(ctx, message))
          [] h = "process_carbs_limit" ->
                Only(process_carbs_limit(ctx, message))
          [] h = "process_fiber_limit" ->
                Only(process_fiber_limit(ctx, message))
          [] h = "process_sugar_limit" ->
                Only(process_sugar_limit(ctx, message))
          [] h = "process_sodium_limit" ->
                Only(process_sodium_limit(ctx, message))
          [] h = "process_cholesterol_limit" ->
                process_cholesterol_limit(World, u, ctx, message, fault)
          [] h = "process_weight" ->
                Only(process_weight(ctx, message))
          [] h = "process_body_fat" ->
                process_body_fat(World, u, ctx, message, fault_macros, fault)
                   @@ [called |-> None]

\* handler h did r
NumberHandled(u, h, message, r, fault_macros, fault) ==
    LET wrote == \/ h = "process_cholesterol_limit" /\ r.called # None
                 \/ /\ h = "process_body_fat"
                    /\ r.said \in {"metrics_set", "metrics_not_set"}
    IN  /\ Commit(r.w)
        /\ SetContext(u, r.ctx)
        /\ last' = [op |-> h, u |-> u, message |-> message,
                    said |-> r.said, called |-> r.called,
                    fault |-> /\ wrote
                              /\ \/ fault
                                 \/ h = "process_body_fat" /\ fault_macros]

\* a message that is not a photo, a command or a menu button arrives while
\* a number is asked for.  fault: the session of the write raises (of
\* set_macros_limits in process_cholesterol_limit, of set_user_body_metrics
\* itself in process_body_fat); fault_macros: the session of the
\* set_macros_limits inside set_user_body_metrics raises.  fault in `last`:
\* the handler called the setter and a session raised.
NumberMessageOn(u, message, fault_macros, fault) ==
    /\ fsm_state[u] \in NumberStates
    /\ NumberHandled(u, HandlerOf(fsm_state[u]), message,
                     HandleNumber(u, message, fault_macros, fault),
                     fault_macros, fault)
    /\ UNCHANGED <<backend, view, next_photo, created, args, running>>

\* the same on a store that takes every write
NumberMessage(u, message) == NumberMessageOn(u, message, FALSE, FALSE)

SetTimezonePressed(u) ==
    LET r == show_timezone_selection(World, u, Context(u))
    IN  /\ Commit(r.w)
        /\ SetContext(u, r.ctx)
        /\ last' = [op |-> "show_timezone_selection", u |-> u]
        /\ UNCHANGED <<backend, view, next_photo, created, args, running>>

\* a button "timezone:<code>" (in any state); fault in `last`: set_timezone
\* reached its session and the session raised
TimezoneHandled(u, timezone_code, fault, r) ==
    /\ Commit(r.w)
    /\ SetContext(u, r.ctx)
    /\ last' = [op |-> "set_selected_timezone", u |-> u,
                said |-> r.said,
                fault |-> fault /\ timezone_code \in AVAILABLE_TIMEZONES]

TimezoneChosen(u, timezone_code, fault) ==
    /\ TimezoneHandled(u, timezone_code, fault,
                       set_selected_timezone(World, u, Context(u),
                                             timezone_code, fault))
    /\ UNCHANGED <<backend, view, next_photo, created, args, running>>

BackToSettingsPressed(u) ==
    /\ SetContext(u, back_to_settings(Context(u)))
    /\ last' = [op |-> "back_to_settings", u |-> u]
    /\ UNCHANGED <<now, backend, users_tbl, food_tbl, next_id, cache, view,
                   next_photo, created, args, running>>

SetKbjuPressed(u) ==
    /\ SetContext(u, show_kbju_format_selection(Context(u)))
    /\ last' = [op |-> "show_kbju_format_selection", u |-> u]
    /\ UNCHANGED <<now, backend, users_tbl, food_tbl, next_id, cache, view,
                   next_photo, created, args, running>>

KbjuManualPressed(u) ==
    LET r == set_manual_kbju(World, u, Context(u))
    IN  /\ Commit(r.w)
        /\ SetContext(u, r.ctx)
        /\ last' = [op |-> "set_manual_kbju", u |-> u]
        /\ UNCHANGED <<backend, view, next_photo, created, args, running>>

SetBodyMetricsPressed(u) ==
    LET r == set_body_metrics(World, u, Context(u))
    IN  /\ Commit(r.w)
        /\ SetContext(u, r.ctx)
        /\ last' = [op |-> "set_body_metrics", u |-> u]
        /\ UNCHANGED <<backend, view, next_photo, created, args, running>>

\* the photos of SpecSettings are all estimated alike
SettingsPhotoOutcomes ==
    {o \in PhotoOutcomes : o.kind = "estimate" /\ o.value.food_name = "soup"}

\* the codes of the timezone buttons pressed: a listed one and one that is
\* not listed
SettingsTimezones == {"MSK", "XXX"}

\* one photo is sent
SettingsPhoto(u, outcome) ==
    /\ next_photo = 1
    /\ PhotoReceived(u, outcome)

NextSettings ==
    \/ \E u \in SettingsUsers : CmdStart(u)
    \/ \E u \in SettingsUsers : CancelPressed(u)
    \/ \E u \in SettingsUsers, outcome \in SettingsPhotoOutcomes :
          SettingsPhoto(u, outcome)
    \/ \E u \in SettingsUsers : ConfirmPressed(u, FALSE)
    \/ \E u \in SettingsUsers : SetCalorieLimitPressed(u)
    \/ \E u \in SettingsUsers, text \in CalorieLimitTexts :
          CalorieLimitText(u, text, FALSE)
    \/ \E u \in SettingsUsers : SetTimezonePressed(u)
    \/ \E u \in SettingsUsers, code \in SettingsTimezones :
          TimezoneChosen(u, code, FALSE)
    \/ \E u \in SettingsUsers : BackToSettingsPressed(u)
    \/ \E u \in SettingsUsers : SetKbjuPressed(u)
    \/ \E u \in SettingsUsers : KbjuManualPressed(u)
    \/ \E u \in SettingsUsers : SetBodyMetricsPressed(u)
    \/ \E u \in SettingsUsers :
          \E message \in MessagesIn(fsm_state[u]) : NumberMessage(u, message)

\* the settings do not read the clock or the engine
InitSettings == Init /\ backend = "instant"

SpecSettings == InitSettings /\ [][NextSettings]_vars

---------------------------------------------------------------------------
(* SpecFaults: one user walks through the conversations with well-formed   *)
(* answers on a store whose sessions may raise SQLAlchemyError in every    *)
(* step that writes.                                                       *)

\* a well-formed answer for each state that asks for a number
AnswersIn(st) ==
    { [text |-> Some(IF st = "waiting_for_body_fat" THEN "25" ELSE "70")] }

\* confirm is pressed while the diary is empty
FirstConfirmPressed(u, fault) == food_tbl = {} /\ ConfirmPressed(u, fault)

NextFaults ==
    \/ \E u \in SettingsUsers : CancelPressed(u)
    \/ \E u \in SettingsUsers, outcome \in SettingsPhotoOutcomes :
          SettingsPhoto(u, outcome)
    \/ \E u \in SettingsUsers, fault \in BOOLEAN :
          FirstConfirmPressed(u, fault)
    \/ \E u \in SettingsUsers : SetCalorieLimitPressed(u)
    \/ \E u \in SettingsUsers, fault \in BOOLEAN :
          CalorieLimitText(u, "2000", fault)
    \/ \E u \in SettingsUsers : SetTimezonePressed(u)
    \/ \E u \in SettingsUsers, fault \in BOOLEAN :
          TimezoneChosen(u, "VLAD", fault)
    \/ \E u \in SettingsUsers : KbjuManualPressed(u)
    \/ \E u \in SettingsUsers : SetBodyMetricsPressed(u)
    \/ \E u \in SettingsUsers, fault_macros \in BOOLEAN, fault \in BOOLEAN :
          \E message \in AnswersIn(fsm_state[u]) :
             NumberMessageOn(u, message, fault_macros, fault)

SpecFaults == InitSettings /\ [][NextFaults]_vars

---------------------------------------------------------------------------
(* SpecAsync: the photo conversation with the handlers run as aiogram runs *)
(* them, each update in a coroutine of its own.  The Dispatcher of         *)
(* bot/bot.py is built without events_isolation, so no lock keeps the      *)
(* updates of one user apart: a handler suspended at an await (the vision  *)
(* call, a message being sent) lets the next update of the same user run.  *)
(* An action is the part of a handler between two suspensions.  A handler  *)
(* that is suspended is a record of `running`:                             *)
(*   h       the handler                                                   *)
(*   u       the user                                                      *)
(*   id      the number of the invocation                                  *)
(*   pc      where it is suspended                                         *)
(*   photo   process_photo: the number of the photo                        *)
(*   closed  process_photo: history, the conversation was cancelled or     *)
(*           completed since the photo arrived                             *)

MaxRunning == 3

FreeTaskId == CHOOSE i \in 1 .. MaxRunning + 1 : \A t \in running : t.id # i

\* history: state.clear ran for user u while the tasks below were suspended
CloseConversation(tasks, u) ==
    { IF t.u = u /\ t.h = "process_photo" THEN [t EXCEPT !.closed = TRUE]
      ELSE t : t \in tasks }

\* process_photo up to the call of analyze_food_image: the notice is sent,
\* the file is fetched, the vision call is in flight
PhotoArrives(u) ==
    /\ next_photo <= MaxPhotos
    /\ Cardinality(running) < MaxRunning
    /\ running' = running \cup
          { [ h |-> "process_photo", u |-> u, id |-> FreeTaskId,
              pc |-> "analysing", photo |-> next_photo, closed |-> FALSE ] }
    /\ next_photo' = next_photo + 1
    /\ created' = Append(created, 0)
    /\ last' = [op |-> "photo_arrives", u |-> u]
    /\ UNCHANGED <<now, backend, users_tbl, food_tbl, next_id, cache,
                   fsm_state, fsm_data, view, args>>

\* process_photo from the return of analyze_food_image to the message with
\* the confirm keyboard: the analysis is written to the FSM data
\* (state.update_data), whatever the state is by now; a download or a vision
\* call that raised ends the handler in its except branch
AnalysisReturns(t, outcome) ==
    /\ t \in running /\ t.h = "process_photo" /\ t.pc = "analysing"
    /\ IF outcome.kind = "download_raises"
       THEN /\ running' = running \ {t}
            /\ UNCHANGED <<fsm_state, fsm_data>>
       ELSE /\ running' = (running \ {t}) \cup {[t EXCEPT !.pc = "answering"]}
            /\ fsm_data' =
                  [fsm_data EXCEPT ![t.u] =
                      process_photo(Context(t.u), t.photo, outcome).data]
            /\ UNCHANGED fsm_state
    /\ last' = [op |-> "analysis_returns", u |-> t.u, photo |-> t.photo,
                kind |-> outcome.kind, closed |-> t.closed]
    /\ UNCHANGED <<now, backend, users_tbl, food_tbl, next_id, cache, view,
                   next_photo, created, args>>

\* process_photo after the message with the confirm keyboard was sent:
\* state.set_state(waiting_for_confirmation)
PhotoAnswered(t) ==
    /\ t \in running /\ t.h = "process_photo" /\ t.pc = "answering"
    /\ running' = running \ {t}
    /\ fsm_state' = [fsm_state EXCEPT ![t.u] =
                        set_state(Context(t.u),
                                  "waiting_for_confirmation").state]
    /\ last' = [op |-> "photo_answered", u |-> t.u, photo |-> t.photo,
                before |-> fsm_state[t.u], closed |-> t.closed]
    /\ UNCHANGED <<now, backend, users_tbl, food_tbl, next_id, cache,
                   fsm_data, view, next_photo, created, args>>

\* process_confirmation did r and is suspended in its message to the user
ConfirmSuspended(u, r) ==
    LET pending == IF "analysis" \in DOMAIN fsm_data[u]
                   THEN Some(fsm_data[u].analysis.photo) ELSE None
        inserted == Cardinality(r.w.food \ food_tbl)
    IN  /\ Commit(IF inserted > 0 THEN TimePasses(r.w) ELSE r.w)
        /\ created' = IF pending = None THEN created
                      ELSE [created EXCEPT ![Val(pending)] =
                              @ + Cardinality(
                                    RowsFrom(r.w.food, Val(pending))
                                    \ food_tbl)]
        /\ running' = running \cup
              { [ h |-> "process_confirmation", u |-> u,
                  id |-> FreeTaskId, pc |-> "answering" ] }
        /\ last' = [op |-> "confirm_arrives", u |-> u,
                    pending |-> pending, inserted |-> inserted]

\* the button "confirm" is pressed: the state filter is evaluated, then
\* process_confirmation runs up to its message to the user (the FSM data
\* is read, the row is added); the handler is suspended before state.clear
ConfirmArrives(u) ==
    /\ next_id <= MaxEntries
    /\ Cardinality(running) < MaxRunning
    /\ fsm_state[u] = "waiting_for_confirmation"
    /\ ConfirmSuspended(u, process_confirmation(World, u, Context(u), FALSE))
    /\ UNCHANGED <<backend, fsm_state, fsm_data, view, next_photo, args>>

\* process_confirmation after its message was sent: state.clear
ConfirmAnswered(t) ==
    /\ t \in running /\ t.h = "process_confirmation"
    /\ running' = CloseConversation(running \ {t}, t.u)
    /\ SetContext(t.u, state_clear(Context(t.u)))
    /\ last' = [op |-> "confirm_answered", u |-> t.u]
    /\ UNCHANGED <<now, backend, users_tbl, food_tbl, next_id, cache, view,
                   next_photo, created, args>>

\* the button "cancel": process_cancel clears the state before its first
\* message
CancelArrives(u) ==
    /\ running' = CloseConversation(running, u)
    /\ SetContext(u, process_cancel(Context(u)))
    /\ last' = [op |-> "process_cancel", u |-> u]
    /\ UNCHANGED <<now, backend, users_tbl, food_tbl, next_id, cache, view,
                   next_photo, created, args>>

NextAsync ==
    \/ \E u \in Users : PhotoArrives(u)
    \/ \E t \in running, outcome \in PhotoOutcomes :
          AnalysisReturns(t, outcome)
    \/ \E t \in running : PhotoAnswered(t)
    \/ \E u \in Users : ConfirmArrives(u)
    \/ \E t \in running : ConfirmAnswered(t)
    \/ \E u \in Users : CancelArrives(u)

SpecAsync == Init /\ [][NextAsync]_vars

---------------------------------------------------------------------------
(* bot/keyboards.py: the timezone selection keyboard.  keyboards.py takes  *)
(* AVAILABLE_TIMEZONES from bot/storage.py, whose codes are Cyrillic: they *)
(* are written here in Latin letters (MSK for the code the two tables      *)
(* share, KLD, SPB, EKB, NSK, IRK, VLD, KMCH, KIV, MNK, AST, TSHK, BKU,    *)
(* UTS for the others).                                                    *)

\* bot/storage.py: list(AVAILABLE_TIMEZONES.items()), the codes in order
StorageTimezoneItems ==
    << "MSK", "KLD", "SPB", "EKB", "NSK", "IRK", "VLD", "KMCH", "KIV",
       "MNK", "AST", "TSHK", "BKU", "UTS" >>

\* bot/db_storage.py: the codes of its AVAILABLE_TIMEZONES in order
DbTimezoneItems ==
    << "MSK", "UTC", "CET", "EET", "GMT", "EKAT", "NOVS", "IRKT", "VLAD",
       "MAGA", "PET", "SAMT", "KRAT", "YEKT", "OMST", "BAKU", "TBIL",
       "YREV", "MINS", "KYIV" >>

page_size == 7

timezone_keyboard_keeps_next(timezone_items, current_timezone, page) ==
    LET total_pages == (Len(timezone_items) - 1) \div page_size + 1
        start_idx == page * page_size
        end_idx == Min(start_idx + page_size, Len(timezone_items))
    IN  [ kind |-> "timezones", page |-> page,
          buttons |-> [i \in 1 .. end_idx - start_idx |->
                          timezone_items[start_idx + i]],
          current |-> current_timezone,
          prev |-> IF page > 0 THEN Some(page - 1) ELSE None,
          next |-> IF page < total_pages THEN Some(page + 1) ELSE None ]

\* get_timezone_keyboard over a table: the codes of the buttons "timezone:",
\* the code that is marked as current, and the pages of the two navigation
\* buttons "timezone_page:"
timezone_keyboard(timezone_items, current_timezone, page) ==
    LET total_pages == (Len(timezone_items) - 1) \div page_size + 1
        start_idx == page * page_size
        end_idx == Min(start_idx + page_size, Len(timezone_items))
    IN  [ kind |-> "timezones", page |-> page,
          buttons |-> [i \in 1 .. end_idx - start_idx |->
                          timezone_items[start_idx + i]],
          current |-> current_timezone,
          prev |-> IF page > 0 THEN Some(page - 1) ELSE None,
          next |-> IF page < total_pages - 1 THEN Some(page + 1) ELSE None ]

\* get_timezone_keyboard
get_timezone_keyboard(current_timezone, page) ==
    timezone_keyboard(StorageTimezoneItems, current_timezone, page)

----------------------------------------------------------------------------
(* SpecPages: the keyboard is built over a table of any length, page 0     *)
(* first, and then for the pages its own navigation buttons name.          *)

\* the tables: every prefix of the two tables of the repository
Registries ==
    { SubSeq(StorageTimezoneItems, 1, n) : n \in 0 .. Len(StorageTimezoneItems) }
    \cup { SubSeq(DbTimezoneItems, 1, n) : n \in 0 .. Len(DbTimezoneItems) }

InitPages ==
    /\ InitStore /\ InitConversation
    /\ now = HMS(1, 4, 0, 0) /\ backend = "instant"
    /\ args \in [ timezone_items : Registries,
                  current_timezone : {"MSK", "VLAD"} ]
    /\ last = [op |-> "init"]

ShowPage(page) ==
    /\ view' = [view EXCEPT ![1] =
                  timezone_keyboard(args.timezone_items,
                                    args.current_timezone, page)]
    /\ last' = [op |-> "get_timezone_keyboard", page |-> page]
    /\ UNCHANGED <<now, backend, users_tbl, food_tbl, next_id, cache,
                   fsm_state, fsm_data, next_photo, created, args, running>>

ShowFirstPage == view[1] = NoView /\ ShowPage(0)

NextPagePressed ==
    /\ view[1].kind = "timezones" /\ view[1].next # None
    /\ ShowPage(Val(view[1].next))

PrevPagePressed ==
    /\ view[1].kind = "timezones" /\ view[1].prev # None
    /\ ShowPage(Val(view[1].prev))

NextPages == ShowFirstPage \/ NextPagePressed \/ PrevPagePressed

SpecPages == InitPages /\ [][NextPages]_vars

----------------------------------------------------------------------------
(* SpecSelection: two users open the timezone selection, turn its pages    *)
(* and press the buttons it shows, on a store that takes every write.      *)
(* view[u] is the keyboard of the selection message of the user.           *)

\* process_timezone_page: the keyboard of the page
process_timezone_page(w, u, page) ==
    LET w1 == get_user_data(w, u)
    IN  Result(w1, get_timezone_keyboard(w1.cache[u].timezone_code, page))

\* the button "set_timezone": show_timezone_selection and its keyboard
SelectionOpened(u) ==
    LET r == show_timezone_selection(World, u, Context(u))
    IN  /\ Commit(r.w)
        /\ SetContext(u, r.ctx)
        /\ view' = [view EXCEPT ![u] =
                      get_timezone_keyboard(r.w.cache[u].timezone_code, 0)]
        /\ last' = [op |-> "show_timezone_selection", u |-> u]
        /\ UNCHANGED <<backend, next_photo, created, args, running>>

\* a button "timezone_page:<page>" of the keyboard
PagePressed(u, page) ==
    LET r == process_timezone_page(World, u, page)
    IN  /\ view[u].kind = "timezones"
        /\ page \in {Val(b) : b \in {view[u].prev, view[u].next} \ {None}}
        /\ Commit(r.w)
        /\ view' = [view EXCEPT ![u] = r.ret]
        /\ last' = [op |-> "process_timezone_page", u |-> u, page |-> page]
        /\ UNCHANGED <<backend, fsm_state, fsm_data, next_photo, created,
                       args, running>>

\* set_selected_timezone for a button of the keyboard: on success the
\* selection message is deleted; before: the code of the profile
OfferedHandled(u, timezone_code, r) ==
    /\ Commit(r.w)
    /\ SetContext(u, r.ctx)
    /\ view' = [view EXCEPT ![u] =
                  IF r.said = "timezone_set" THEN NoView ELSE @]
    /\ last' = [op |-> "set_selected_timezone", u |-> u,
                code |-> timezone_code, said |-> r.said,
                before |-> get_user_data(World, u).cache[u].timezone_code]
    /\ UNCHANGED <<backend, next_photo, created, args, running>>

\* the k-th button "timezone:<code>" of the keyboard
OfferedPressed(u, k) ==
    /\ view[u].kind = "timezones"
    /\ k \in 1 .. Len(view[u].buttons)
    /\ OfferedHandled(u, view[u].buttons[k],
                      set_selected_timezone(World, u, Context(u),
                                            view[u].buttons[k], FALSE))

\* codes a profile got through set_timezone before it opens the selection
SelectionTimezones == {"VLAD", "UTC"}

NextSelection ==
    \/ \E u \in Users, code \in SelectionTimezones :
          view[u] = NoView /\ CallSetTimezone(u, code, FALSE)
    \/ \E u \in Users : SelectionOpened(u)
    \/ \E u \in Users, page \in 0 .. 2 : PagePressed(u, page)
    \/ \E u \in Users, k \in 1 .. page_size : OfferedPressed(u, k)

SpecSelection == InitSettings /\ [][NextSelection]_vars

----------------------------------------------------------------------------
(* SpecRoundTrip: the profile setters are called for a user on a store     *)
(* that takes every write, and the process may restart between two calls.  *)

NextRoundTrip ==
    \/ \E u \in ProfileUsers, weight \in WeightInputs,
          body_fat \in BodyFatInputs :
          CallSetUserBodyMetrics(u, weight, body_fat, FALSE, FALSE)
    \/ \E u \in ProfileUsers, m \in ProfileMacroInputs :
          CallSetMacrosLimits(u, m, FALSE)
    \/ \E u \in ProfileUsers, limit \in CalorieLimitInputs :
          CallSetCalorieLimit(u, limit, FALSE)
    \/ \E u \in ProfileUsers, code \in TimezoneInputs :
          CallSetTimezone(u, code, FALSE)
    \/ Restart

SpecRoundTrip == InitLimits /\ [][NextRoundTrip]_vars

----------------------------------------------------------------------------
(* SpecIsolation: two users send photos, confirm, cancel, set the calorie  *)
(* limit and the timezone, and delete rows by id and by display index, one *)
(* handler after the other.                                                *)

IsolationTimezones == {"VLAD", "XXX"}

IsolationTexts == {"2000", "abc"}

NextIsolation ==
    \/ \E u \in Users, outcome \in SettingsPhotoOutcomes :
          PhotoReceived(u, outcome)
    \/ \E u \in Users : ConfirmPressed(u, FALSE)
    \/ \E u \in Users : CancelPressed(u)
    \/ \E u \in Users : SetCalorieLimitPressed(u)
    \/ \E u \in Users, text \in IsolationTexts :
          CalorieLimitText(u, text, FALSE)
    \/ \E u \in Users, code \in IsolationTimezones :
          CallSetTimezone(u, code, FALSE)
    \/ \E u \in Users, entry_id \in 1 .. MaxEntries :
          CallDeleteEntry(u, entry_id, FALSE)
    \/ \E u \in Users, index \in 0 .. 1 :
          CallDeleteEntryByIndex(u, index, FALSE)

SpecIsolation == InitSettings /\ [][NextIsolation]_vars

----------------------------------------------------------------------------
(* SpecChain: one user walks through the manual chain of limits again and  *)
(* again, with a limit or 0 ("no limit") for each optional nutrient; the   *)
(* process may restart in between.                                         *)

ChainUsers == {1}

OptionalStates ==
    { "waiting_for_fiber_limit", "waiting_for_sugar_limit",
      "waiting_for_sodium_limit", "waiting_for_cholesterol_limit" }

ChainMessagesIn(st) ==
    { [text |-> Some(t)] :
        t \in IF st \in OptionalStates THEN {"0", "25", "70"} ELSE {"70"} }

ChainMessage(u, message) ==
    /\ fsm_state[u] \in NumberStates \ {"waiting_for_weight",
                                        "waiting_for_body_fat"}
    /\ NumberMessage(u, message)

NextChain ==
    \/ \E u \in ChainUsers : KbjuManualPressed(u)
    \/ \E u \in ChainUsers :
          \E message \in ChainMessagesIn(fsm_state[u]) :
              ChainMessage(u, message)
    \/ Restart

SpecChain == InitSettings /\ [][NextChain]_vars

----------------------------------------------------------------------------
(* Properties.                                                             *)

\* the sum of a field over a list of entries, as a reader of the list adds it
RECURSIVE SumListed(_, _)
SumListed(entries, f) ==
    IF entries = <<>> THEN 0
    ELSE Head(entries)[f] + SumListed(Tail(entries), f)

\* the lists recordsOnDate(u, D) may return
RecordsOnDate(u, D) == get_entries_by_date(get_user_data(World, u), u, D).ret

\* statsForDate(u, D)
StatsForDate(u, D) == get_stats_by_date(get_user_data(World, u), u, D).ret

C2_BucketedByLocalDate ==
    (last.op = "add_food_entry" /\ ~last.fault) =>
        LET D == DateOf(last.local)
            Listed(d) == \E entries \in RecordsOnDate(last.u, d) :
                            \E i \in 1 .. Len(entries) :
                               entries[i].id = last.ret.id
        IN  Listed(D) /\ ~Listed(D - 1) /\ ~Listed(D + 1)

\* an owner in Vladivostok (UTC+10) on an engine that compares instants:
\* the record is appended on local date 2 and listed under date 1
C2_FailingInput ==
    /\ last.op = "add_food_entry" /\ ~last.fault
    /\ backend = "instant"
    /\ cache[last.u].timezone_code = "VLAD"
    /\ DateOf(last.local) = 2
    /\ \A entries \in RecordsOnDate(last.u, 2) :
          \A i \in 1 .. Len(entries) : entries[i].id # last.ret.id
    /\ \E entries \in RecordsOnDate(last.u, 1) :
          \E i \in 1 .. Len(entries) : entries[i].id = last.ret.id

\* C3: the delete button of a meal detail removes exactly the record that
\* the list of the viewed date shows at the detail's index (the store taking
\* the write), and no other record.
C3_DeleteRemovesListedRecord ==
    (last.op = "process_delete_meal" /\ ~last.fault /\ last.expected # {}) =>
        \E id \in last.expected : last.removed = {id}

\* the detail of the first meal of the list of date 1 is open on a later
\* day: the button removes another record, the first one of that day
C3_FailingInput ==
    /\ last.op = "process_delete_meal" /\ ~last.fault
    /\ last.date = 1 /\ last.index = 0
    /\ last.expected = {last.shown}
    /\ last.removed # {} /\ last.shown \notin last.removed

\* C4: delete_entry returns true only for an id that exists and belongs to
\* the caller, and then removes that row and no other; for an id that is
\* absent or belongs to another user it returns false and removes nothing;
\* an existing own id is removed unless the store raises.
C4_DeleteByIdOwnerOnly ==
    last.op = "delete_entry" =>
        /\ last.ret =>
              /\ last.existed
              /\ \E r \in last.removed :
                    /\ last.removed = {r}
                    /\ r.id = last.entry_id /\ r.user_id = last.u
        /\ ~last.ret => last.removed = {}
        /\ ~last.existed => ~last.ret
        /\ (last.existed /\ ~last.fault) => last.ret

\* the id of another user's row was passed: false, and the row is still there
C4_Witness ==
    /\ last.op = "delete_entry" /\ ~last.ret /\ ~last.fault
    /\ \E r \in food_tbl : r.id = last.entry_id /\ r.user_id # last.u

\* C5: after a successful set_macros_limits the calorie limit of the profile
\* is round(protein * 4 + fat * 9 + carbs * 4).
C5_CalorieLimitIsRounded ==
    (last.op = "set_macros_limits" /\ last.ret) =>
        cache[last.u].calorie_limit =
            Some(100 * RoundDiv(last.m.protein * 4 + last.m.fat * 9
                                + last.m.carbs * 4, 100))

\* protein 10.2 g, fat 1 g, carbs 1 g: 53.8 kcal is stored as 53
C5_FailingInput ==
    /\ last.op = "set_macros_limits" /\ last.ret
    /\ last.m.protein = 1020 /\ last.m.fat = 100 /\ last.m.carbs = 100
    /\ cache[last.u].calorie_limit = Some(5300)

\* min(100, round(sum / limit * 100, 1)) if the limit is set and > 0, else 0
SpecPercentage(sum, limit) ==
    IF limit # None /\ Val(limit) > 0
    THEN Min(1000, RoundDiv(sum * 1000, Val(limit)))
    ELSE 0

\* C6: for every nutrient and date the percentage of statsForDate is
\* min(100, round(sum / limit * 100, 1)) when the limit is set and > 0, and 0
\* otherwise; it is never above 100.
C6_PercentageClamped ==
    \A u \in Users, D \in Dates, X \in NutrientFields :
        LET st == StatsForDate(u, D)
        IN  /\ \A entries \in RecordsOnDate(u, D) :
                  st.percentage[X] = SpecPercentage(SumListed(entries, X),
                                                    st.limit[X])
            /\ st.percentage[X] <= 1000

\* limit 2310 kcal, one record of 2400 kcal: 100 %
C6_Witness ==
    \E u \in Users :
        LET st == StatsForDate(u, 1)
        IN  /\ st.limit["calories"] = Some(231000)
            /\ st.entries = 1
            /\ st.total["calories"] = 240000
            /\ st.percentage["calories"] = 1000

\* C8 as stated: each total of statsForDate equals the sum of the field over
\* the records recordsOnDate returns, and the entry count is their number.
C8_TotalsAreExactSums ==
    \A u \in Users, D \in Dates :
        LET st == StatsForDate(u, D)
        IN  \A entries \in RecordsOnDate(u, D) :
               /\ st.entries = Len(entries)
               /\ \A X \in NutrientFields :
                     st.total[X] = SumListed(entries, X)

\* C8: each total of statsForDate equals the sum of the field over exactly
\* the records recordsOnDate returns for the date, rounded to one decimal
\* place, and the entry count is the number of those records.
C8_TotalsAreRoundedSums ==
    \A u \in Users, D \in Dates :
        LET st == StatsForDate(u, D)
        IN  \A entries \in RecordsOnDate(u, D) :
               /\ st.entries = Len(entries)
               /\ \A X \in NutrientFields :
                     st.total[X] = Round1(SumListed(entries, X))

\* a user with two stored records, one of them on date 1 at the last whole
\* second of the day: the stats of date 1 count and sum that one
C8_Witness ==
    \E u \in Users :
        /\ Cardinality({r \in food_tbl : r.user_id = u}) = 2
        /\ \E r \in food_tbl :
              /\ r.user_id = u /\ r.timestamp = HMS(1, 23, 59, 59)
              /\ StatsForDate(u, 1).entries = 1
              /\ StatsForDate(u, 1).total["calories"] = Round1(r.calories)
              /\ StatsForDate(u, 1).total["calories"] # r.calories

\* C9: when analyze_food_image returns None the conversation is idle with no
\* pending analysis afterwards, and no analysis that the vision call did not
\* produce is ever waiting for confirmation.
C9_NullAnalysisResetsToIdle ==
    /\ (last.op = "process_photo" /\ last.kind = "null") =>
          /\ fsm_state[last.u] = "none"
          /\ "analysis" \notin DOMAIN fsm_data[last.u]
    /\ \A u \in Users :
          "analysis" \in DOMAIN fsm_data[u] =>
              fsm_data[u].analysis.origin = "vision"

\* the vision call returned None and a dish of food_options is waiting for
\* confirmation
C9_FailingInput ==
    /\ last.op = "process_photo" /\ last.kind = "null"
    /\ fsm_state[last.u] = "waiting_for_confirmation"
    /\ fsm_data[last.u].analysis.origin = "mock"

\* C10: when processing a photo raises, the conversation is idle afterwards,
\* with no state data, whatever state the photo found.
C10_ExceptionResetsToIdle ==
    (last.op = "process_photo" /\ last.kind = "download_raises") =>
        /\ fsm_state[last.u] = "none"
        /\ fsm_data[last.u] = <<>>

\* the download of the second photo raised while the analysis of the first
\* was waiting: it is still waiting
C10_FailingInput ==
    /\ last.op = "process_photo" /\ last.kind = "download_raises"
    /\ fsm_state[last.u] = "waiting_for_confirmation"
    /\ "analysis" \in DOMAIN fsm_data[last.u]
    /\ fsm_data[last.u].analysis.photo < last.photo

\* C11: a result of the analysis that arrives after the user cancelled (or a
\* confirm completed the conversation) is discarded: it stores no pending
\* analysis and it does not set the state to waiting_for_confirmation.
C11_LateResultDiscarded ==
    /\ ( /\ last.op = "analysis_returns"
         /\ last.closed )
       => ~ ( /\ "analysis" \in DOMAIN fsm_data[last.u]
              /\ fsm_data[last.u].analysis.photo = last.photo )
    /\ ( /\ last.op = "photo_answered"
         /\ last.closed )
       => fsm_state[last.u] = last.before

\* the user cancelled while the vision call was in flight, the result came
\* back, and the conversation that was idle waits for a confirmation of it
C11_FailingInput ==
    /\ last.op = "photo_answered"
    /\ last.closed
    /\ last.before = "none"
    /\ fsm_state[last.u] = "waiting_for_confirmation"
    /\ "analysis" \in DOMAIN fsm_data[last.u]
    /\ fsm_data[last.u].analysis.photo = last.photo

\* the values of an analysis, without its history fields
AnalysisValues(analysis) ==
    [f \in DOMAIN analysis \ {"photo", "origin", "replaced"} |-> analysis[f]]

\* C12: a photo analysed while the state is waiting_for_confirmation replaces
\* the pending analysis: afterwards the one pending analysis is the new
\* estimate, field for field, and the row a following confirm adds carries
\* the values of the analysis that was pending, and of no other.
C12_NewPhotoReplacesPending ==
    /\ ( /\ last.op = "process_photo"
         /\ last.kind = "estimate" )
       => /\ fsm_state[last.u] = "waiting_for_confirmation"
          /\ "analysis" \in DOMAIN fsm_data[last.u]
          /\ fsm_data[last.u].analysis.photo = last.photo
          /\ AnalysisValues(fsm_data[last.u].analysis) = last.outcome.value
    /\ ( /\ last.op = "confirm"
         /\ last.inserted > 0 )
       => /\ last.inserted = 1
          /\ \E r \in food_tbl :
                /\ r.id = next_id - 1
                /\ r.user_id = last.u
                /\ r.src = last.analysis.photo
                /\ r.food_name = last.analysis.food_name
                /\ \A f \in NutrientFields : r[f] = Get(last.analysis, f, 0)

\* photo 1 was awaiting confirmation when the estimate of a second photo
\* came, and the confirm that followed stored the second estimate
C12_Witness ==
    /\ last.op = "confirm"
    /\ last.inserted = 1
    /\ last.analysis.origin = "vision"
    /\ last.analysis.replaced # None
    /\ created[Val(last.analysis.replaced)] = 0
    /\ \E r \in food_tbl : r.src = last.analysis.photo

\* the profile of user u as the handlers read it (get_user_data)
ProfileOf(u) == get_user_data(World, u).cache[u]

\* the conversation states of CalorieTrackerStates that wait for an input
ConversationStates ==
    NumberStates \cup { "waiting_for_confirmation",
                        "waiting_for_calorie_limit", "waiting_for_timezone",
                        "waiting_for_kbju_format" }

\* C13: from every conversation state a cancel event (the cancel button,
\* /start) leads to the idle state with no transient data left, and changes
\* neither the profile nor the diary.
C13_CancelResets ==
    [][ \A u \in Users :
          ( /\ last'.op \in {"process_cancel", "cmd_start"}
            /\ last'.u = u )
          => /\ fsm_state'[u] = "none"
             /\ fsm_data'[u] = <<>>
             /\ food_tbl' = food_tbl
             /\ ProfileOf(u)' = ProfileOf(u) ]_vars

\* the cancel button was pressed while the sodium limit was asked for, with
\* limits set earlier and a row in the diary
C13_Witness ==
    /\ last.op = "process_cancel"
    /\ last.before = "waiting_for_sodium_limit"
    /\ fsm_state[last.u] = "none"
    /\ fsm_data[last.u] = <<>>
    /\ ProfileOf(last.u).protein_limit # None
    /\ food_tbl # {}

\* the texts that are written numbers, and the handlers that ask for a
\* number that has to be positive
NumericTexts == {"-5", "0", "4", "25", "70", "82.4", "400", "2000"}

PositiveOnly ==
    { "process_protein_limit", "process_fat_limit", "process_carbs_limit",
      "process_weight" }

\* a message that is no acceptable answer to the question of handler h: it
\* has no text, its text is not a number, the number is not positive where
\* a positive one is asked for (negative where 0 is allowed), or it is out
\* of the range the question names (weight up to 300 kg, body fat 5 to 50)
Malformed(h, message) ==
    \/ message.text = None
    \/ Val(message.text) \notin NumericTexts
    \/ LET value == ParseFloat(message).value
       IN  \/ value < 0
           \/ h \in PositiveOnly /\ value = 0
           \/ h = "process_weight" /\ value > MaxWeight
           \/ h = "process_body_fat"
              /\ (value < MinBodyFat \/ value > MaxBodyFat)

\* C14: in every state that waits for a number, an input that is not a
\* number, not positive where that is required, or out of range leaves the
\* state, the transient data and the profile as they are, and the user is
\* asked again.
C14_MalformedInputReprompts ==
    [][ \A u \in Users :
          ( /\ last'.u = u
            /\ \/ /\ last'.op \in {HandlerOf(st) : st \in NumberStates}
                  /\ Malformed(last'.op, last'.message)
               \/ /\ last'.op = "process_calorie_limit"
                  /\ last'.text \in {"0", "abc"} )
          => /\ fsm_state'[u] = fsm_state[u]
             /\ fsm_data'[u] = fsm_data[u]
             /\ ProfileOf(u)' = ProfileOf(u)
             /\ last'.said = "reprompt" ]_vars

\* the text "nan" was sent as the protein limit: it was taken as the limit
\* and the conversation went on to the fat limit
C14_FailingInput ==
    /\ last.op = "process_protein_limit"
    /\ last.message = [text |-> Some("nan")]
    /\ fsm_state[last.u] = "waiting_for_fat_limit"
    /\ fsm_data[last.u].protein_limit = NaN

\* a sticker was sent as the body fat: the conversation was dropped
C14_FailingInputNoText ==
    /\ last.op = "process_body_fat"
    /\ last.message = [text |-> None]
    /\ last.said = "error"
    /\ fsm_state[last.u] = "none"

\* the handlers of the manual path in their order, the key each one stores
\* its value under and the state each one hands over to
ManualPath ==
    << [h |-> "process_protein_limit", key |-> "protein_limit",
        next |-> "waiting_for_fat_limit"],
       [h |-> "process_fat_limit", key |-> "fat_limit",
        next |-> "waiting_for_carbs_limit"],
       [h |-> "process_carbs_limit", key |-> "carbs_limit",
        next |-> "waiting_for_fiber_limit"],
       [h |-> "process_fiber_limit", key |-> "fiber_limit",
        next |-> "waiting_for_sugar_limit"],
       [h |-> "process_sugar_limit", key |-> "sugar_limit",
        next |-> "waiting_for_sodium_limit"],
       [h |-> "process_sodium_limit", key |-> "sodium_limit",
        next |-> "waiting_for_cholesterol_limit"] >>

\* a limit of 0 stands for no limit
Limit(value) == IF value = 0 THEN None ELSE Some(value)

\* C15: the manual path asks for protein, fat, carbs, fiber, sugar, sodium
\* and cholesterol in this order and collects every accepted value in the
\* transient data; nothing is written to the profile before the
\* cholesterol step, which calls set_macros_limits once with the collected
\* values and leaves the conversation idle.
C15_ManualPathInOrder ==
    [][ \A u \in Users :
          /\ \A i \in DOMAIN ManualPath :
                ( last'.u = u /\ last'.op = ManualPath[i].h )
                => /\ last'.called = None
                   /\ ProfileOf(u)' = ProfileOf(u)
                   /\ IF last'.said = "next_prompt"
                      THEN /\ fsm_state'[u] = ManualPath[i].next
                           /\ fsm_data'[u] =
                                 (ManualPath[i].key :>
                                     ParseFloat(last'.message).value)
                                 @@ fsm_data[u]
                      ELSE /\ fsm_state'[u] = fsm_state[u]
                           /\ fsm_data'[u] = fsm_data[u]
          /\ ( /\ last'.u = u
               /\ last'.op = "process_cholesterol_limit"
               /\ ~Malformed(last'.op, last'.message) )
             => /\ last'.called =
                      Some([ protein |-> fsm_data[u].protein_limit,
                             fat |-> fsm_data[u].fat_limit,
                             carbs |-> fsm_data[u].carbs_limit,
                             fiber |-> Limit(fsm_data[u].fiber_limit),
                             sugar |-> Limit(fsm_data[u].sugar_limit),
                             sodium |-> Limit(fsm_data[u].sodium_limit),
                             cholesterol |->
                                Limit(ParseFloat(last'.message).value) ])
                /\ fsm_state'[u] = "none"
                /\ fsm_data'[u] = <<>> ]_vars

\* the cholesterol step after a protein limit of NaN was collected:
\* set_macros_limits was called and raised, the conversation still waits
\* for the cholesterol limit
C15_FailingInput ==
    /\ last.op = "process_cholesterol_limit"
    /\ last.message = [text |-> Some("70")]
    /\ last.called # None
    /\ Val(last.called).protein = NaN
    /\ last.said = "reprompt"
    /\ fsm_state[last.u] = "waiting_for_cholesterol_limit"

\* C16: set_user_body_metrics(weight, body_fat) fails and changes nothing
\* when weight <= 0 or body_fat is outside [0, 100]; whenever it reports
\* success the cached profile has the derived limits: protein = 2 * weight *
\* (1 - body_fat / 100), fat = weight, carbs = 3 * weight, fiber = 0.3 *
\* weight, sugar = 0.5 * weight, sodium = 20 * weight, cholesterol = 3 *
\* weight (each to one decimal place), and a calorie limit within one kcal
\* of 4 * protein + 9 * fat + 4 * carbs.
C16_BodyMetricsDeriveLimits ==
    [][ \A u \in Users :
          ( last'.op = "set_user_body_metrics" /\ last'.u = u )
          => LET weight == last'.weight
                 body_fat == last'.body_fat
                 p == ProfileOf(u)'
                 Is(limit, numerator, denominator) ==
                     /\ limit # None
                     /\ Val(limit) * denominator - numerator
                           \in -5 * denominator .. 5 * denominator
             IN  /\ ( weight <= 0 \/ body_fat < 0 \/ body_fat > 10000 )
                    => /\ ~last'.ret
                       /\ p = ProfileOf(u)
                       /\ users_tbl' = get_user_data(World, u).users
                 /\ last'.ret
                    => /\ Is(p.protein_limit,
                             2 * weight * (10000 - body_fat), 10000)
                       /\ Is(p.fat_limit, weight, 1)
                       /\ Is(p.carbs_limit, 3 * weight, 1)
                       /\ Is(p.fiber_limit, 3 * weight, 10)
                       /\ Is(p.sugar_limit, 5 * weight, 10)
                       /\ Is(p.sodium_limit, 20 * weight, 1)
                       /\ Is(p.cholesterol_limit, 3 * weight, 1)
                       /\ p.calorie_limit # None
                       /\ LET exact == MacroCalories(Val(p.protein_limit),
                                                     Val(p.fat_limit),
                                                     Val(p.carbs_limit))
                          IN  /\ Val(p.calorie_limit) > exact - 100
                              /\ Val(p.calorie_limit) < exact + 100 ]_vars

\* 70 kg with 100 percent body fat on a new profile: success is reported
\* and no limit is set
C16_FailingInput ==
    /\ last.op = "set_user_body_metrics"
    /\ last.weight = 7000 /\ last.body_fat = 10000
    /\ last.ret
    /\ ProfileOf(last.u).user_weight = Some(7000)
    /\ ProfileOf(last.u).protein_limit = None
    /\ ProfileOf(last.u).calorie_limit = None

\* the columns of models.User the profile is stored in
StoredColumns ==
    { "timezone_code", "calorie_limit", "protein_limit", "fat_limit",
      "carbs_limit", "fiber_limit", "user_weight", "body_fat_percentage" }

\* C17: a write that fails never leaves the cached profile ahead of the
\* store: after every call that sets a calorie limit, macro limits, body
\* metrics or a timezone, the cached object and the stored row agree in
\* every stored column.
C17_CacheAgreesWithStore ==
    \A u \in DOMAIN cache :
       /\ u \in DOMAIN users_tbl
       /\ \A column \in StoredColumns : cache[u][column] = users_tbl[u][column]

\* set_timezone("VLAD") met a session that raised: it returned False, the
\* cached object says VLAD and the row says MSK
C17_FailingInput ==
    /\ last.op = "set_timezone"
    /\ ~last.ret
    /\ cache[last.u].timezone_code = "VLAD"
    /\ users_tbl[last.u].timezone_code = "MSK"

\* C18: a confirm that finds a pending analysis either stores the record
\* (add_food_entry returns the stored row and the user is told it was
\* added), or the store rejected the insert, and then add_food_entry
\* returns nothing that looks like a record and the user is not told the
\* record was added.
C18_AppendStoresOrSignals ==
    ( /\ last.op = "confirm"
      /\ last.handled
      /\ last.pending # None )
    => \/ /\ last.inserted = 1
          /\ last.entry_id # None
          /\ \E r \in food_tbl :
                r.id = Val(last.entry_id) /\ r.user_id = last.u
       \/ /\ last.inserted = 0
          /\ last.entry_id = None
          /\ last.said # "added"

\* the store rejected the insert of a confirmed analysis: add_food_entry
\* returned a dictionary with id 0 and the user was told the record was
\* added; the diary has no row of it
C18_FailingInput ==
    /\ last.op = "confirm"
    /\ last.fault
    /\ last.pending # None
    /\ last.inserted = 0
    /\ last.entry_id = Some(0)
    /\ last.said = "added"
    /\ RowsFrom(food_tbl, Val(last.pending)) = {}

\* C19: the handlers of one user never interleave: no handler of a user is
\* suspended while another handler of that user runs, so at most one
\* handler of a user is in flight, and no analysis is stored more than once
\* (two confirm presses arriving together insert one record).
C19_HandlersDoNotInterleave ==
    /\ \A t1, t2 \in running : t1.u = t2.u => t1 = t2
    /\ \A p \in DOMAIN created : created[p] <= 1

\* two confirm presses of one user arrived together: both handlers read the
\* same pending analysis before either cleared the state, and the diary
\* holds two rows of that one analysis
C19_FailingInput ==
    /\ last.op = "confirm_arrives"
    /\ last.pending # None
    /\ created[Val(last.pending)] = 2
    /\ Cardinality(RowsFrom(food_tbl, Val(last.pending))) = 2
    /\ Cardinality({ t \in running : /\ t.h = "process_confirmation"
                                     /\ t.u = last.u }) = 2

\* C20: a row of the diary is created only by a confirm that finds a pending
\* analysis.  Every step that adds rows is a handled confirm with a pending
\* analysis, adds one row, and the row carries the owner, the name and the
\* nutrient values of that analysis; a photo (with its analysis result), a
\* cancel, /start and the limit dialogue leave the rows as they are; stored
\* rows are not altered afterwards, and in the state reached every row
\* belongs to an analysis that was confirmed.
C20_CreatedOnlyByConfirm ==
    [][ /\ food_tbl \subseteq food_tbl'
        /\ last'.op \in { "process_photo", "process_cancel", "cmd_start",
                          "set_calorie_limit", "process_calorie_limit" }
              => food_tbl' = food_tbl
        /\ food_tbl' # food_tbl
              => /\ last'.op = "confirm"
                 /\ last'.handled
                 /\ last'.pending # None
                 /\ fsm_state[last'.u] = "waiting_for_confirmation"
                 /\ "analysis" \in DOMAIN fsm_data[last'.u]
                 /\ Cardinality(food_tbl' \ food_tbl) = 1
                 /\ \A r \in food_tbl' \ food_tbl :
                       LET analysis == fsm_data[last'.u].analysis
                       IN  /\ r.user_id = last'.u
                           /\ r.src = analysis.photo
                           /\ r.src = Val(last'.pending)
                           /\ r.food_name = analysis.food_name
                           /\ \A f \in NutrientFields :
                                 r[f] = Get(analysis, f, 0)
        /\ \A r \in food_tbl' :
              /\ r.src \in DOMAIN created'
              /\ created'[r.src] >= 1
      ]_vars

\* two photos were received, one analysis was confirmed and stored, the
\* other one was not, and the user then set a calorie limit: the diary holds
\* the one confirmed row
C20_Witness ==
    /\ last.op = "process_calorie_limit"
    /\ last.said = "limit_set"
    /\ next_photo > MaxPhotos
    /\ Cardinality(food_tbl) = 1
    /\ \E r \in food_tbl : r.user_id = last.u /\ created[r.src] = 1
    /\ \E p \in DOMAIN created : created[p] = 0

C22_TimezoneSelfHeals ==
    [][ \A u \in Users :
          ( /\ last'.op \in {"timezone", "get_timezone_name"}
            /\ last'.u = u ) =>
             /\ cache'[u].timezone_code \in AVAILABLE_TIMEZONES
             /\ last'.before \notin AVAILABLE_TIMEZONES =>
                   /\ last'.zone = UtcOffset(DefaultTimezoneCode)
                   /\ cache'[u].timezone_code = DefaultTimezoneCode
                   /\ ~last'.fault =>
                         users_tbl'[u].timezone_code = DefaultTimezoneCode
             /\ last'.before \in AVAILABLE_TIMEZONES =>
                   /\ last'.zone = UtcOffset(last'.before)
                   /\ cache'[u].timezone_code = last'.before
                   /\ users_tbl' = get_user_data(World, u).users
      ]_vars

\* the row of user 1 carried the unknown code OLD; the timezone was read,
\* the default zone was returned, and the object and the row say MSK
C22_Witness ==
    /\ last.op \in {"timezone", "get_timezone_name"}
    /\ last.before = "OLD"
    /\ ~last.fault
    /\ last.zone = UtcOffset("MSK")
    /\ cache[last.u].timezone_code = "MSK"
    /\ users_tbl[last.u].timezone_code = "MSK"

\* the conversation steps that write to the store
WritingSteps ==
    { "confirm", "process_calorie_limit", "process_cholesterol_limit",
      "process_body_fat", "set_selected_timezone" }

\* the answers that tell the user the step failed
FailureMessages ==
    {"limits_not_set", "metrics_not_set", "invalid_timezone", "error"}

\* C23: whenever a session of the store raises during a conversation step
\* that writes (a confirm, a calorie limit, the macro limits, the body
\* metrics, a timezone), the user is sent a failure message and the
\* conversation is idle afterwards.
C23_StorageFaultEndsIdle ==
    ( /\ last.op \in WritingSteps
      /\ last.fault
      /\ last.op = "confirm" => last.pending # None )
    => /\ last.said \in FailureMessages
       /\ fsm_state[last.u] = "none"

\* the user chose VLAD in the state waiting_for_timezone and the session
\* raised: the answer is "invalid timezone", the state is still
\* waiting_for_timezone, and the cached object already says VLAD
C23_FailingInput ==
    /\ last.op = "set_selected_timezone"
    /\ last.fault
    /\ last.said = "invalid_timezone"
    /\ fsm_state[last.u] = "waiting_for_timezone"
    /\ cache[last.u].timezone_code = "VLAD"
    /\ users_tbl[last.u].timezone_code = "MSK"

\* C24: every "today" of the stats view is the owner's current date in the
\* owner's zone.  After the stats are shown, navigated or refreshed: the
\* view opened without a date shows the owner's today; the navigation row
\* is built around the date the message shows; the next-day button is
\* offered exactly when that date is before the owner's today; and the
\* button that leads to today, when offered, leads to the owner's today.
C24_TodayIsOwnersDate ==
    ( last.op \in { "show_stats", "process_date_callback",
                    "process_refresh_stats" } )
    => LET v == view[last.u]
       IN  /\ last.op = "show_stats" => v.date = last.today
           /\ v.keyboard.label = v.date
           /\ (v.keyboard.next # None) <=> (v.date < last.today)
           /\ v.keyboard.go_today # None =>
                 Val(v.keyboard.go_today) = last.today
           /\ v.keyboard.go_today = None => v.date = last.today

\* a user in Vladivostok opens the stats when it is already the next day
\* there and still the day before for the process: the message shows the
\* user's today, and the keyboard offers a button "today" that leads to the
\* day before
C24_FailingInput ==
    /\ last.op = "show_stats"
    /\ cache[last.u].timezone_code = "VLAD"
    /\ view[last.u].date = last.today
    /\ view[last.u].keyboard.go_today # None
    /\ Val(view[last.u].keyboard.go_today) = last.today - 1
    /\ DateOf(now + args.process_offset) = last.today - 1


----------------------------------------------------------------------------
\* C25: set_calorie_limit(n) with n <= 0 changes nothing, neither in the
\* cached profile nor in the store, and raises nothing (the method returns
\* nothing and catches the error of its session); with n > 0 the cached
\* calorie_limit becomes n, the stored calorie_limit becomes n when the
\* session commits and stays as it was when the session fails, and no other
\* field of the profile, no other profile and no record changes.
C25_SetCalorieLimitFrame ==
    [][ \A u \in Users :
          ( last'.op = "set_calorie_limit" /\ last'.u = u )
          => LET w == get_user_data(World, u)
                 limit == last'.limit
             IN  /\ food_tbl' = w.food /\ next_id' = w.next_id /\ now' = w.now
                 /\ DOMAIN cache' = DOMAIN w.cache
                 /\ DOMAIN users_tbl' = DOMAIN w.users
                 /\ \A v \in DOMAIN w.cache \ {u} : cache'[v] = w.cache[v]
                 /\ \A v \in DOMAIN w.users \ {u} : users_tbl'[v] = w.users[v]
                 /\ limit <= 0 =>
                       cache'[u] = w.cache[u] /\ users_tbl'[u] = w.users[u]
                 /\ limit > 0 =>
                       /\ cache'[u] =
                            [w.cache[u] EXCEPT !.calorie_limit = Some(limit)]
                       /\ users_tbl'[u] =
                            IF last'.fault THEN w.users[u]
                            ELSE [w.users[u] EXCEPT
                                     !.calorie_limit = Some(limit)] ]_vars

\* a profile with a calorie limit and macro limits is given a limit of 0 or
\* less, and the limit it had is still the one in the cache and in the store
C25_Witness ==
    /\ last.op = "set_calorie_limit" /\ last.limit <= 0 /\ ~last.fault
    /\ cache[last.u].calorie_limit = Some(200000)
    /\ users_tbl[last.u].calorie_limit = Some(200000)
    /\ cache[last.u].protein_limit # None

----------------------------------------------------------------------------
\* the fields of a row that are set when it is created
Identity(r) ==
    [ id |-> r.id, user_id |-> r.user_id, food_name |-> r.food_name,
      calories |-> r.calories, protein |-> r.protein, fat |-> r.fat,
      carbs |-> r.carbs, timestamp |-> r.timestamp ]

\* C26: a stored record keeps its id, owner, food name, calories, protein,
\* fat, carbs and time for as long as it is stored, and its id is never
\* given to another record; update_food_entry changes the record with the
\* given id owned by the caller in the nutrients that were passed and in
\* nothing else, and returns False and changes nothing for an absent or
\* foreign record or on a failing session.
C26_RecordsImmutableButMicros ==
    [][ /\ \A r \in food_tbl : \A r2 \in food_tbl' :
             r2.id = r.id => Identity(r2) = Identity(r)
        /\ \A r2 \in food_tbl' \ food_tbl :
             (\E r \in food_tbl : r.id = r2.id) \/ r2.id >= next_id
        /\ \A u \in Users :
             ( last'.op = "update_food_entry" /\ last'.u = u )
             => LET mine == {r \in food_tbl : r.id = last'.entry_id
                                               /\ r.user_id = u}
                    m == last'.m
                IN  /\ last'.ret = (mine # {} /\ ~last'.fault)
                    /\ ~last'.ret => food_tbl' = food_tbl
                    /\ \A r \in food_tbl \ mine : r \in food_tbl'
                    /\ Cardinality(food_tbl') = Cardinality(food_tbl)
                    /\ last'.ret =>
                          \A r \in mine : \E r2 \in food_tbl' :
                             /\ r2.id = r.id /\ r2.src = r.src
                             /\ r2.fiber = IF m.fiber = None THEN r.fiber
                                           ELSE Val(m.fiber)
                             /\ r2.sugar = IF m.sugar = None THEN r.sugar
                                           ELSE Val(m.sugar)
                             /\ r2.sodium = IF m.sodium = None THEN r.sodium
                                            ELSE Val(m.sodium)
                             /\ r2.cholesterol =
                                   IF m.cholesterol = None THEN r.cholesterol
                                   ELSE Val(m.cholesterol) ]_vars

\* a user's record was updated with fiber alone while the other user's
\* record is stored beside it
C26_Witness ==
    /\ last.op = "update_food_entry" /\ last.ret
    /\ last.m.sugar = None
    /\ \E r \in food_tbl : r.id = last.entry_id /\ r.fiber = 100
    /\ \E r \in food_tbl : r.user_id # last.u

----------------------------------------------------------------------------
\* the part of the target that was consumed, in tenths of a percent
ConsumedPercentage(value, target, nutrient_type) ==
    LET t == IF target = None \/ Val(target) <= 0
             THEN FallbackTarget(nutrient_type) ELSE target
    IN  (value * 1000) \div Val(t)

\* C27: the bar of a nutrient tells the band of the consumption, as the
\* calorie bar does: two bars of one nutrient for one target whose
\* consumptions lie in different bands (below 85 %, 85 % to below 100 %,
\* 100 % or more) are filled with different glyphs.
C27_NutrientBarBanded ==
    ( last.op = "generate_nutrient_progress_bar"
      /\ args.nutrient_type \in NutrientTypes )
    => \A value \in NutrientValues :
          LET other == generate_nutrient_progress_bar(
                          value, args.target, args.nutrient_type, args.width)
          IN  ( /\ BandOf(ConsumedPercentage(value, args.target,
                                             args.nutrient_type))
                   # BandOf(ConsumedPercentage(args.value, args.target,
                                               args.nutrient_type))
                /\ last.ret.cells # <<>> /\ other.cells # <<>>
                /\ last.ret.cells[1] # "empty"
                /\ other.cells[1] # "empty" )
              => other.cells[1] # last.ret.cells[1]

\* 90 g of protein against a target of 100 g: nine cells of the glyph that
\* 50 g are drawn with
C27_FailingInput ==
    /\ last.op = "generate_nutrient_progress_bar"
    /\ args.nutrient_type = "protein" /\ args.target = Some(10000)
    /\ args.value = 9000 /\ args.width = 10
    /\ last.ret.cells = Repeat("protein", 9) \o Repeat("empty", 1)
    /\ generate_nutrient_progress_bar(5000, args.target, "protein", 10).cells[1]
       = "protein"

\* C28: for each of the seven nutrients and every value >= 0, a bar asked
\* for with no target, a target of 0 or a negative target is computed
\* against the fallback target of the nutrient (25 g for fiber): it prints
\* min(100, value * 100 / fallback) cut to a whole number, which lies in
\* 0 .. 100, and it has exactly `width` cells, the filled ones first.
C28_FallbackTargetUsed ==
    ( /\ last.op = "generate_nutrient_progress_bar"
      /\ args.nutrient_type \in NutrientTypes
      /\ (args.target = None \/ Val(args.target) <= 0) )
    => LET fallback == Val(FallbackTarget(args.nutrient_type))
           cells == last.ret.cells
       IN  /\ fallback > 0
           /\ args.nutrient_type = "fiber" => fallback = 2500
           /\ last.ret.label = Min(100, (args.value * 100) \div fallback)
           /\ last.ret.label \in 0 .. 100
           /\ Len(cells) = args.width
           /\ \E k \in 0 .. args.width :
                 /\ k = Min((last.ret.label * args.width) \div 100, args.width)
                 /\ \A i \in 1 .. k : cells[i] = args.nutrient_type
                 /\ \A i \in k + 1 .. args.width : cells[i] = "empty"

\* 21.25 g of fiber with a target of 0: 85 % of the 25 g fallback
C28_Witness ==
    /\ last.op = "generate_nutrient_progress_bar"
    /\ args.nutrient_type = "fiber" /\ args.target = Some(0)
    /\ args.value = 2125 /\ args.width = 10
    /\ last.ret.label = 85
    /\ Len(last.ret.cells) = 10

----------------------------------------------------------------------------
\* C29: no two records of the in-memory store, of one user or of two,
\* carry the same id, also when they were created within one second, and
\* delete_entry called with the id of a record removes that record and no
\* other.
C29_IdsUnique ==
    ( last.op \in {"add_food_entry", "delete_entry"}
      /\ DOMAIN cache = Users
      /\ \A u \in Users : "food_entries" \in DOMAIN cache[u] )
    => /\ \A u, v \in Users :
            \A i \in 1 .. Len(cache[u].food_entries) :
            \A j \in 1 .. Len(cache[v].food_entries) :
               (u # v \/ i # j)
               => cache[u].food_entries[i].id # cache[v].food_entries[j].id
       /\ last.op = "delete_entry" => (last.ret /\ last.kept)

\* a user stored salad and pasta within one second and asked for the pasta
\* to be deleted: the salad is gone and the pasta is kept
C29_FailingInput ==
    /\ last.op = "delete_entry" /\ last.ret /\ ~last.kept
    /\ last.position = 2
    /\ Len(cache[last.u].food_entries) = 1
    /\ cache[last.u].food_entries[1].food_name = "pasta"

----------------------------------------------------------------------------
\* C30: for a user and a date that recordsOnDate has no record for,
\* statsForDate returns an entry count of 0, eight totals of 0 and eight
\* percentages of 0, and under each "<x>_limit" the limit the user's profile
\* holds at the time of the call.
C30_EmptyDateCarriesLimits ==
    \A u \in Users, D \in Dates :
        RecordsOnDate(u, D) = {<<>>} =>
            LET st == StatsForDate(u, D)
                profile == get_user_data(World, u).cache[u]
            IN  /\ st.entries = 0
                /\ \A X \in NutrientFields :
                      st.total[X] = 0 /\ st.percentage[X] = 0
                /\ st.limit["calories"] = profile.calorie_limit
                /\ st.limit["protein"] = profile.protein_limit
                /\ st.limit["fat"] = profile.fat_limit
                /\ st.limit["carbs"] = profile.carbs_limit
                /\ st.limit["fiber"] = profile.fiber_limit
                /\ st.limit["sugar"] = profile.sugar_limit
                /\ st.limit["sodium"] = profile.sodium_limit
                /\ st.limit["cholesterol"] = profile.cholesterol_limit

\* a user with a calorie limit, macro limits and a sugar limit has a record
\* on date 1 and none on date 2: the stats of date 2 are zero and carry the
\* limits
C30_Witness ==
    \E u \in Users :
        /\ u \in DOMAIN cache
        /\ cache[u].calorie_limit = Some(200000)
        /\ cache[u].sugar_limit = Some(5000)
        /\ StatsForDate(u, 1).entries = 1
        /\ RecordsOnDate(u, 2) = {<<>>}
        /\ StatsForDate(u, 2).entries = 0
        /\ StatsForDate(u, 2).limit["calories"] = Some(200000)
        /\ StatsForDate(u, 2).limit["protein"] = Some(12000)
        /\ StatsForDate(u, 2).limit["sugar"] = Some(5000)

----------------------------------------------------------------------------
\* the pages a table of n codes is cut into
PagesOf(n) == (n + page_size - 1) \div page_size

\* C31: for a table of any length the pages 0 .. PagesOf(n) - 1 of the
\* keyboard hold the codes of the table once each and in the order of the
\* table (the i-th code is the button (i - 1) % 7 + 1 of page (i - 1) / 7 and
\* no other button), no page holds more than page_size buttons, and the
\* page shown offers the next page exactly when a later page exists and the
\* previous page exactly when it is not page 0.
C31_PagesPartitionRegistry ==
    view[1].kind = "timezones" =>
        LET items == args.timezone_items
            n == Len(items)
            Page(p) == timezone_keyboard(items, args.current_timezone, p)
            v == view[1]
        IN  /\ v = Page(v.page)
            /\ v.page \in 0 .. PagesOf(n) - 1 \/ (n = 0 /\ v.page = 0)
            /\ \A p \in 0 .. PagesOf(n) - 1 :
                  /\ Len(Page(p).buttons) \in 1 .. page_size
                  /\ \A k \in 1 .. Len(Page(p).buttons) :
                        Page(p).buttons[k] = items[p * page_size + k]
            /\ \A i \in 1 .. n :
                  LET p == (i - 1) \div page_size
                  IN  /\ p \in 0 .. PagesOf(n) - 1
                      /\ Page(p).buttons[((i - 1) % page_size) + 1] = items[i]
            /\ (v.next # None) <=> (v.page + 1 <= PagesOf(n) - 1)
            /\ v.next # None => Val(v.next) = v.page + 1
            /\ (v.prev # None) <=> (v.page > 0)
            /\ v.prev # None => Val(v.prev) = v.page - 1

\* the last page of a table of 15 codes: one button, a previous-page button
\* and no next-page button
C31_Witness ==
    /\ view[1].kind = "timezones"
    /\ Len(args.timezone_items) = 15
    /\ view[1].page = 2
    /\ Len(view[1].buttons) = 1
    /\ view[1].prev = Some(1) /\ view[1].next = None

----------------------------------------------------------------------------
\* C32: pressing a timezone button that the selection keyboard shows
\* succeeds, and the profile's timezone is then the code of the button, in
\* the cache and in the store.
C32_OfferedCodesAccepted ==
    last.op = "set_selected_timezone" =>
        /\ last.said = "timezone_set"
        /\ cache[last.u].timezone_code = last.code
        /\ users_tbl[last.u].timezone_code = last.code

\* the button of Vladivostok on the first page of the keyboard (VLD in the
\* table of bot/storage.py) is answered with "invalid timezone", the
\* profile stays on Moscow time and the selection stays open
C32_FailingInput ==
    /\ last.op = "set_selected_timezone"
    /\ last.code = "VLD" /\ last.code \notin AVAILABLE_TIMEZONES
    /\ last.said = "invalid_timezone"
    /\ cache[last.u].timezone_code = "MSK"
    /\ users_tbl[last.u].timezone_code = "MSK"
    /\ fsm_state[last.u] = "waiting_for_timezone"
    /\ view[last.u].kind = "timezones"

----------------------------------------------------------------------------
\* the object a new process builds for the user from the stored row
LoadedAfresh(users, u) == load_from_db([World EXCEPT !.users = users,
                                                     !.cache = <<>>], u).cache[u]

\* C33: a successful call of set_calorie_limit, set_macros_limits,
\* set_user_body_metrics or set_timezone on a profile that a new process
\* would load as it is cached leaves a profile that a new process would load
\* as it is cached: timezone, the eight limits and the body metrics.
C33_ProfileRoundTrip ==
    [][ \A u \in ProfileUsers :
          ( /\ last'.op \in { "set_calorie_limit", "set_macros_limits",
                              "set_user_body_metrics", "set_timezone" }
            /\ last'.u = u
            /\ last'.op # "set_calorie_limit" => last'.ret = TRUE
            /\ LoadedAfresh(get_user_data(World, u).users, u)
               = get_user_data(World, u).cache[u] )
          => LoadedAfresh(users_tbl', u) = cache'[u] ]_vars

\* set_macros_limits(120, 70, 300, fiber 30, sugar 50, sodium 2300,
\* cholesterol 300) returned True on a fresh profile: the object holds the
\* sugar limit, the row a new process loads has none
C33_FailingInput ==
    /\ last.op = "set_macros_limits" /\ last.ret = TRUE
    /\ cache[last.u].sugar_limit = Some(5000)
    /\ cache[last.u].fiber_limit = LoadedAfresh(users_tbl, last.u).fiber_limit
    /\ LoadedAfresh(users_tbl, last.u).sugar_limit = None
    /\ LoadedAfresh(users_tbl, last.u).sodium_limit = None
    /\ LoadedAfresh(users_tbl, last.u).cholesterol_limit = None

----------------------------------------------------------------------------
\* recordsOnDate(owner, D) returns the row
ListedOn(r, D) ==
    \E entries \in RecordsOnDate(r.user_id, D) :
       \E i \in 1 .. Len(entries) : entries[i].id = r.id

\* C34: every stored record is returned by recordsOnDate of its owner for
\* exactly one calendar date, also a record stamped in the last second of a
\* day, after 23:59:59.000.
C34_NoGapBetweenWindows ==
    \A r \in food_tbl : Cardinality({D \in Dates : ListedOn(r, D)}) = 1

\* a record stamped half a second after 23:59:59 of day 1 on an engine that
\* compares instants: no date lists it, days 1 and 2 included
C34_FailingInput ==
    /\ backend = "instant"
    /\ \E r \in food_tbl :
          /\ r.timestamp = HMS(1, 23, 59, 59) + 1
          /\ r.timestamp < HMS(2, 0, 0, 0)
          /\ \A D \in Dates : ~ListedOn(r, D)

----------------------------------------------------------------------------
\* C35: the delete button of a meal detail removes the record whose values
\* the detail displays and no other one, whatever was added or deleted
\* since the detail was rendered: it never removes another record, and when
\* the store takes the write the displayed record is not stored afterwards.
C35_DeleteRemovesShownRecord ==
    last.op = "process_delete_meal" =>
        /\ last.removed \subseteq {last.shown}
        /\ ~last.fault => \A r \in food_tbl : r.id # last.shown

\* the detail of a record was open at index 0 when the user stored a second
\* record on the same day; the button removed the second record and the
\* displayed one is still stored
C35_FailingInput ==
    /\ last.op = "process_delete_meal" /\ ~last.fault
    /\ last.index = 0
    /\ last.removed # {} /\ last.shown \notin last.removed
    /\ \E r \in food_tbl : r.id = last.shown /\ r.user_id = last.u
                           /\ DateOf(r.timestamp) = last.date
    /\ \A id \in last.removed : id > last.shown

----------------------------------------------------------------------------
\* the states in which a limit, the weight, the body fat or the timezone is
\* being entered
EntryStates ==
    { "waiting_for_calorie_limit", "waiting_for_kbju_format",
      "waiting_for_protein_limit", "waiting_for_fat_limit",
      "waiting_for_carbs_limit", "waiting_for_fiber_limit",
      "waiting_for_sugar_limit", "waiting_for_sodium_limit",
      "waiting_for_cholesterol_limit", "waiting_for_weight",
      "waiting_for_body_fat", "waiting_for_timezone" }

----------------------------------------------------------------------------
\* C37: the navigation of a stats message is relative to the date D the
\* message shows, with or without entries on D: the previous-day button
\* leads to D - 1, the next-day button is there exactly when D is before the
\* owner's today and leads to D + 1 (so k previous-day presses from today
\* show today - k).
C37_NavigationRelativeToView ==
    ( last.op \in { "show_stats", "process_date_callback",
                    "process_refresh_stats" } )
    => LET v == view[last.u]
       IN  /\ v.keyboard.prev = Some(v.date - 1)
           /\ (v.keyboard.next # None) <=> (v.date < last.today)
           /\ v.keyboard.next # None => v.keyboard.next = Some(v.date + 1)

\* owner and process both on UTC: the message shows yesterday, a date with
\* a record; its previous-day button leads to yesterday again and it has
\* no next-day button
C37_FailingInput ==
    /\ last.op = "process_date_callback"
    /\ cache[last.u].timezone_code = "UTC" /\ args.process_offset = 0
    /\ view[last.u].date = last.today - 1
    /\ StatsForDate(last.u, view[last.u].date).entries > 0
    /\ view[last.u].keyboard.prev = Some(view[last.u].date)
    /\ view[last.u].keyboard.next = None

----------------------------------------------------------------------------
\* what the cache and the users table hold of a user
HeldOf(c, t, u) ==
    [ cached |-> IF u \in DOMAIN c THEN Some(c[u]) ELSE None,
      stored |-> IF u \in DOMAIN t THEN Some(t[u]) ELSE None ]

RowsOf(food, u) == {r \in food : r.user_id = u}

\* the store without the rows of the other users
OwnWorld(u) == [World EXCEPT !.food = RowsOf(food_tbl, u)]

\* the step leaves the conversation, the pending analysis, the profile and
\* the diary of user b as they were
Untouched(b) ==
    /\ fsm_state'[b] = fsm_state[b]
    /\ fsm_data'[b] = fsm_data[b]
    /\ HeldOf(cache', users_tbl', b) = HeldOf(cache, users_tbl, b)
    /\ RowsOf(food_tbl', b) = RowsOf(food_tbl, b)

\* listings and stats of every user are those of the user's own rows
OwnRecordsOnly ==
    \A b \in Users, D \in Dates :
        /\ \A entries \in RecordsOnDate(b, D) :
              \A i \in DOMAIN entries :
                  entries[i].id \in {r.id : r \in RowsOf(food_tbl, b)}
        /\ RecordsOnDate(b, D)
              = get_entries_by_date(get_user_data(OwnWorld(b), b), b, D).ret
        /\ StatsForDate(b, D)
              = get_stats_by_date(get_user_data(OwnWorld(b), b), b, D).ret

\* C38: user isolation.  A photo, a confirm, a cancel, a calorie limit, a
\* timezone setting and a delete by id or by index handled for user A leave
\* the conversation state, the pending analysis, the profile and the diary
\* rows of every other user unchanged, and the listings and stats of a user
\* never include another user's rows.
C38_UserIsolation ==
    /\ []OwnRecordsOnly
    /\ [][\A b \in Users : b # last'.u => Untouched(b)]_vars

\* user 1 deletes by the id of user 2's row while user 2, with a profile and
\* a row of their own, has an analysis pending: nothing is removed
C38_Witness ==
    /\ last.op = "delete_entry" /\ last.u = 1
    /\ \E r \in food_tbl : r.user_id = 2 /\ r.id = last.entry_id
    /\ fsm_state[2] = "waiting_for_confirmation"
    /\ 2 \in DOMAIN cache /\ 2 \in DOMAIN users_tbl

----------------------------------------------------------------------------
\* the optional nutrients of set_macros_limits
OptionalNutrients == {"fiber", "sugar", "sodium", "cholesterol"}

\* the profile attribute and FSM key of a nutrient's limit
LimitKey(X) ==
    CASE X = "fiber" -> "fiber_limit"
      [] X = "sugar" -> "sugar_limit"
      [] X = "sodium" -> "sodium_limit"
      [] X = "cholesterol" -> "cholesterol_limit"

\* the number the user entered for an optional limit of the chain that the
\* cholesterol message completes
EnteredFor(u, message, X) ==
    IF X = "cholesterol" THEN ParseFloat(message).value
    ELSE fsm_data[u][LimitKey(X)]

\* C39: set_macros_limits changes an optional limit (fiber, sugar, sodium,
\* cholesterol) only when a value for it is supplied.  When the manual chain
\* is completed, a nutrient the user entered 0 for is passed as omitted and
\* its limit stays what it was before the call, on the cached profile and in
\* the store, and stays the limit the stats are compared with; a nutrient
\* the user entered a positive number for gets that number.
C39_OmittedLimitKept ==
    [][ \A u \in ChainUsers :
          ( /\ last'.op = "process_cholesterol_limit" /\ last'.u = u
            /\ last'.called # None )
          => LET before == get_user_data(World, u)
                 m == Val(last'.called)
             IN  /\ last'.said = "limits_set"
                 /\ \A X \in OptionalNutrients :
                       LET entered == EnteredFor(u, last'.message, X)
                       IN  /\ (entered = 0) <=> (m[X] = None)
                           /\ entered = 0
                              => /\ cache'[u][LimitKey(X)]
                                       = before.cache[u][LimitKey(X)]
                                 /\ LimitOf(cache'[u], X)
                                       = LimitOf(before.cache[u], X)
                           /\ entered > 0
                              => cache'[u][LimitKey(X)] = Some(entered)
                 /\ EnteredFor(u, last'.message, "fiber") = 0
                    => users_tbl'[u].fiber_limit = before.users[u].fiber_limit
      ]_vars

\* the chain was completed with 0 for fiber and for cholesterol after an
\* earlier chain had set 70 for both: both limits are still 70, sugar is the
\* 25 just entered
C39_Witness ==
    /\ last.op = "process_cholesterol_limit" /\ last.said = "limits_set"
    /\ last.message.text = Some("0")
    /\ Val(last.called).fiber = None
    /\ Val(last.called).sugar = Some(2500)
    /\ cache[last.u].fiber_limit = Some(7000)
    /\ users_tbl[last.u].fiber_limit = Some(7000)
    /\ cache[last.u].cholesterol_limit = Some(7000)
    /\ cache[last.u].sugar_limit = Some(2500)
=============================================================================
